---- MODULE Spec2Model ----
(***************************************************************************)
(* The trace event store of the Web Tracing Framework: wtf.db.EventList    *)
(* (insert, rebuild = resortEvents_ ; rescopeEvents_ ;                      *)
(* rebuildAncillaryLists_, the time lookups) over the packed records of    *)
(* wtf.db.EventStruct, and the wtf.db.EventTypeTable it shares.            *)
(*                                                                         *)
(* A record of the backing Uint32Array is a TLA+ record with one field per *)
(* cell of EventStruct; eventData is a function from the record index      *)
(* 0 .. count-1 (the code's index) to its record.  Times are microseconds, *)
(* as in the TIME cell; a time the code hands out in milliseconds is kept  *)
(* as the microsecond numerator (value * 1000).                            *)
(***************************************************************************)
EXTENDS Integers, Sequences, FiniteSets, TLC

\* ------------------------------------------------------------ bounds
\* The number of records a store may hold when events arrive in any order.
MaxEvents == 3
\* The number of records of a session whose clock ticks once per event.
MaxNest == 6
\* SpecRoot: records in the store.
MaxRoot == 5
\* SpecLists: records in the store.
MaxListEvents == 3
\* SpecFrames: records in the store.
MaxFrameEvents == 3
\* SpecStats: records in the store.
MaxStatEvents == 4
\* SpecSort: records in the store.
MaxSortEvents == 5
\* - records in the store of SpecIter
MaxIterEvents == 3
\* The times of inserted events are 0, TimeUnit, ..., MaxTime * TimeUnit.
MaxTime == 2
\* The spacing of the event times, in microseconds: half a millisecond, so
\* that a lookup time in whole milliseconds falls on and between events.
TimeUnit == 500
\* SpecGrow: the records the store starts with, and the inserts after them.
BulkCount == 1022
MaxGrowEvents == 2
\* The capacity the first growth of the buffer gives.
MinCapacity == 1024
\* The names on-demand (generic enter / timeStamp) events carry.
Names == {"a"}

\* ------------------------------------------------------------ cells
\* The cells are unsigned machine words (Uint32Array).  TLC's integers are
\* 32 bit signed, so the word is modelled 16 bits wide: a store of -1 wraps
\* to CellRange - 1 and a time of CellRange or more wraps around, exactly as
\* in the 32 bit cell.
CellRange == 2 ^ 16

ToUint32(x) == x % CellRange

\* A slot of a freshly allocated Uint32Array: every cell is 0.
ZeroRecord ==
  [id |-> 0, type |-> 0, parent |-> 0, depth |-> 0, time |-> 0,
   nextSibling |-> 0, arguments |-> 0, value |-> 0, tag |-> 0,
   endTime |-> 0, systemTime |-> 0, childTime |-> 0]

\* ------------------------------------------------------------ event types
\* An event type: name, class and flags (the id is its position in the
\* table).  createScope / createInstance make a type without flags.
CreateScope(name) == [name |-> name, eventClass |-> "SCOPE", flags |-> {}]

CreateInstance(name) == [name |-> name, eventClass |-> "INSTANCE", flags |-> {}]

\* The types every trace declares before its first event, and one
\* application scope type that carries the SYSTEM_TIME flag.
InitialTypes ==
  << [name |-> "wtf.scope#enter", eventClass |-> "SCOPE",
      flags |-> {"BUILTIN", "INTERNAL"}],
     [name |-> "wtf.scope#leave", eventClass |-> "INSTANCE",
      flags |-> {"BUILTIN", "INTERNAL"}],
     [name |-> "wtf.scope#appendData", eventClass |-> "INSTANCE",
      flags |-> {"BUILTIN", "INTERNAL"}],
     [name |-> "wtf.trace#timeStamp", eventClass |-> "INSTANCE",
      flags |-> {"BUILTIN", "INTERNAL"}],
     [name |-> "sys", eventClass |-> "SCOPE", flags |-> {"SYSTEM_TIME"}] >>

\* eventsByName_ is a plain object ({}): besides the names defined it answers
\* to the property names every object inherits, with a function.  No event
\* of the stores below carries such a name; the type table is asked for one
\* in SpecTypes.
ObjectPrototypeNames == {"constructor", "toString"}

\* What getByName returns for an inherited property: not null, and no type.
NotAType == -2

\* EventTypeTable.getByName: the id of the type, 0 for null.
GetByName(types, name) ==
  IF \E i \in 1..Len(types) : types[i].name = name
  THEN CHOOSE i \in 1..Len(types) : types[i].name = name
  ELSE IF name \in ObjectPrototypeNames THEN NotAType
  ELSE 0

\* EventTypeTable.defineType: the table after the call (the type keeps its
\* first definition; a new name takes id nextTypeId_ = Len + 1).
DefineType(types, eventType) ==
  IF GetByName(types, eventType.name) = 0 THEN Append(types, eventType)
  ELSE types

\* ------------------------------------------------------------ argument data
\* ArgumentData: the value of the argument "name" ("" when absent) and of
\* one other argument, "extra" (0 when absent).
MakeArgs(name, extra) == [name |-> name, extra |-> extra]

\* ArgumentData.merge: the fields of other overwrite the same names.
MergeArgs(self, other) ==
  [name |-> IF other.name # "" THEN other.name ELSE self.name,
   extra |-> IF other.extra # 0 THEN other.extra ELSE self.extra]

\* ------------------------------------------------------------ state
VARIABLES
  eventData,            \* EventList.eventData, records 0 .. count-1
  count,                \* EventList.count
  argumentData_,        \* EventList.argumentData_, ids 1 .. nextArgumentDataId_-1
  firstEventTime_,      \* EventList.firstEventTime_ (microseconds)
  lastEventTime_,       \* EventList.lastEventTime_ (microseconds)
  maximumScopeDepth_,   \* EventList.maximumScopeDepth_
  eventTypes,           \* EventTypeTable.eventsById_, ids 1 .. nextTypeId_-1
  lastOp,               \* the last operation on the store
  threw,                \* whether the last rebuild() raised
  opened,               \* the records the last rebuild had to open as scopes
  query,                \* the last lookup: its argument and its result
  ancillaryLists_,      \* EventList.ancillaryLists_: the registered lists
  frames_,              \* FrameList.frames_ of every frame list, by number
  frameList_,           \* FrameList.frameList_ of every frame list
  calls,                \* the callbacks and emitted events of the last operation
  list_,                \* EventStatistics.list_: the entries, in list order
  listSortMode_,        \* EventStatistics.listSortMode_
  filteredEventCount_,  \* EventStatistics.filteredEventCount_
  statCall,             \* the last call on the statistics and its arguments
  typeCall,             \* the last call on the type table and its result
  iterator              \* the EventIterator in use and its last call

vars ==
  << eventData, count, argumentData_, firstEventTime_, lastEventTime_,
     maximumScopeDepth_, eventTypes, lastOp, threw, opened, query,
     ancillaryLists_, frames_, frameList_, calls,
     list_, listSortMode_, filteredEventCount_, statCall, typeCall,
     iterator >>

\* What the ancillary lists hold.
listVars == << ancillaryLists_, frames_, frameList_ >>

\* What the statistics object holds.
statVars == << list_, listSortMode_, filteredEventCount_, statCall >>

NoQuery == [op |-> "none", time |-> 0, result |-> 0]

NoTypeCall == [fn |-> "none", name |-> "", id |-> 0, result |-> 0]

nextArgumentDataId_ == Len(argumentData_) + 1

Indices == 0 .. (count - 1)

\* capacity_: 0 until the first insert, then doubled from MinCapacity each
\* time an insert finds count + 1 >= capacity_; the inserts so far leave
\* the least such capacity above count.
RECURSIVE CapacityAbove(_, _)
CapacityAbove(capacity, n) ==
  IF capacity > n THEN capacity ELSE CapacityAbove(capacity * 2, n)

capacity_ == IF count = 0 THEN 0 ELSE CapacityAbove(MinCapacity, count)

\* ------------------------------------------------------------ insert
\* EventList.insert(eventType, time, opt_argData): typeId is eventType.id,
\* hasArgs tells whether opt_argData was given.
InsertRecord(data, n, typeId, time, argsId) ==
  LET slot == IF n \in DOMAIN data THEN data[n] ELSE ZeroRecord
  IN [i \in DOMAIN data \cup {n} |->
        IF i # n THEN data[i]
        ELSE [slot EXCEPT !.id = ToUint32(n), !.type = ToUint32(typeId),
                          !.parent = ToUint32(-1), !.time = ToUint32(time),
                          !.arguments = IF argsId = 0 THEN slot.arguments
                                        ELSE ToUint32(argsId)]]

\* (mutant) the copy into the grown buffer stops one record short.
GrowBufferShort(data, n) ==
  [i \in 0 .. (n - 1) |-> IF i < n - 1 THEN data[i] ELSE ZeroRecord]

\* The copy of the records into the grown buffer.
GrowBuffer(data, n) == [i \in 0 .. (n - 1) |-> data[i]]

Insert(typeId, time, hasArgs, argData) ==
  /\ eventData' = InsertRecord(IF count + 1 >= capacity_
                               THEN GrowBuffer(eventData, count)
                               ELSE eventData,
                               count, typeId, time,
                               IF hasArgs THEN nextArgumentDataId_ ELSE 0)
  /\ argumentData_' = IF hasArgs THEN Append(argumentData_, argData)
                      ELSE argumentData_
  /\ count' = count + 1
  /\ lastOp' = "insert"
  /\ query' = [op |-> "insert", time |-> time, result |-> typeId]
  /\ calls' = << >>
  /\ UNCHANGED << firstEventTime_, lastEventTime_, maximumScopeDepth_,
                  eventTypes, threw, opened, listVars, statVars, typeCall,
                  iterator >>

\* ------------------------------------------------------------ resortEvents_
\* (mutant) equal times are ordered by descending ID.
CompareEventsTieReversed(data, ai, bi) ==
  IF data[ai].time = data[bi].time THEN data[bi].id - data[ai].id
  ELSE data[ai].time - data[bi].time

\* (mutant) the comparison forgets the times.
CompareEventsById(data, ai, bi) == data[ai].id - data[bi].id

\* The comparison function handed to sortIndex.sort: by TIME, then by ID.
CompareEvents(data, ai, bi) ==
  IF data[ai].time = data[bi].time THEN data[ai].id - data[bi].id
  ELSE data[ai].time - data[bi].time

\* Array.prototype.sort under CompareEvents, by insertion: the comparison is
\* a strict total order on the records (their IDs differ), so every sorting
\* algorithm returns this same sequence.  s is sorted; x is put in its place.
RECURSIVE SortInsert(_, _, _)
SortInsert(data, s, x) ==
  IF s = << >> THEN << x >>
  ELSE IF CompareEvents(data, x, Head(s)) < 0 THEN << x >> \o s
  ELSE << Head(s) >> \o SortInsert(data, Tail(s), x)

\* sortIndex after the sort: position k (1-based) holds the old index.
RECURSIVE SortIndex(_, _)
SortIndex(data, n) ==
  IF n = 0 THEN << >>
  ELSE SortInsert(data, SortIndex(data, n - 1), n - 1)

\* newData: the records moved to their sorted place and renumbered.
ResortedData(data, n) ==
  LET sortIndex == SortIndex(data, n)
  IN [k \in 0 .. (n - 1) |-> [data[sortIndex[k + 1]] EXCEPT !.id = ToUint32(k)]]

\* EventIterator.getTime / getEndTime / isScope read on the re-sorted data
\* (before the scopes are rebuilt), kept in microseconds.
FirstEventTimeOf(data, n) == IF n = 0 THEN 0 ELSE data[0].time

LastEventTimeOf(data, n) ==
  IF n = 0 THEN 0
  ELSE IF data[n - 1].endTime # 0 THEN data[n - 1].endTime
  ELSE data[n - 1].time

\* ------------------------------------------------------------ rescopeEvents_
\* The state of the forward scan: the event data poked in place, the four
\* stacks and stackTop / stackMax, the type table and the argument data the
\* scan updates, and whether the scan raised.  The stack arrays are indexed
\* from 0; slot 0 of stack is never written and reads 0.
StackSlots(n) == [d \in 0 .. n |-> 0]

RescopeStart(data, n, types, args) ==
  [data |-> data, count |-> n, types |-> types, args |-> args,
   stack |-> StackSlots(n), typeStack |-> StackSlots(n),
   childTimeStack |-> StackSlots(n), systemTimeStack |-> StackSlots(n),
   stackTop |-> 0, stackMax |-> 0, threw |-> FALSE]

Max(a, b) == IF a >= b THEN a ELSE b

\* stack[++stackTop] = id; typeStack[stackTop] = type; stackMax = max(...).
PushScope(st, data, id, typeId) ==
  [st EXCEPT !.data = data,
             !.stack[st.stackTop + 1] = id,
             !.typeStack[st.stackTop + 1] = typeId,
             !.stackTop = st.stackTop + 1,
             !.stackMax = Max(st.stackMax, st.stackTop + 1)]

\* The generic wtf.scope#enter branch.  A record without argument data
\* reads argumentData_[0] = null and args.get raises.
ScopeEnterBranch(st, data, n) ==
  LET argsId == data[n].arguments
  IN IF argsId = 0 THEN [st EXCEPT !.data = data, !.threw = TRUE]
     ELSE LET name == st.args[argsId].name
              types2 == IF GetByName(st.types, name) = 0
                        THEN DefineType(st.types, CreateScope(name))
                        ELSE st.types
              newId == GetByName(types2, name)
              d2 == [data EXCEPT ![n].type = ToUint32(newId)]
          IN PushScope([st EXCEPT !.types = types2], d2, d2[n].id, newId)

\* (mutant) the bottom of the stack instead of its top.
ParentIdOutermost(st) == st.stack[IF st.stackTop > 0 THEN 1 ELSE 0]

\* var parentId = stack[stackTop]: the PARENT cell of the record, and the
\* scope a leave closes.
ParentId(st) == st.stack[st.stackTop]

\* (mutant) the depth counted from 1.
DepthCellFromOne(st) == ToUint32(st.stackTop + 1)

\* The DEPTH cell of the record: stackTop.
DepthCell(st) == ToUint32(st.stackTop)

\* (mutant) the closed scope keeps pointing at its first child.
LinkSiblingsLeaveOnly(data, n, parentId, nextEventId) ==
  [data EXCEPT ![n].nextSibling = 0]

\* The leave's NEXT_SIBLING becomes 0 and the closed scope takes over the
\* leave's next event.
LinkSiblings(data, n, parentId, nextEventId) ==
  [data EXCEPT ![n].nextSibling = 0, ![parentId].nextSibling = nextEventId]

\* (mutant) END_TIME read at the scope's offset instead of the leave's.
CloseScopeAtOwnTime(data, parentId, time, systemTime, childTime) ==
  [data EXCEPT ![parentId].endTime = data[parentId].time,
               ![parentId].systemTime = ToUint32(systemTime),
               ![parentId].childTime = ToUint32(childTime)]

\* (mutant) CHILD_TIME counts the closed scope's own duration as well.
CloseScopeCountingItself(data, parentId, time, systemTime, childTime) ==
  [data EXCEPT ![parentId].endTime = time,
               ![parentId].systemTime = ToUint32(systemTime),
               ![parentId].childTime =
                  ToUint32(childTime + time - data[parentId].time)]

\* The closed scope's END_TIME, SYSTEM_TIME and CHILD_TIME cells.
CloseScope(data, parentId, time, systemTime, childTime) ==
  [data EXCEPT ![parentId].endTime = time,
               ![parentId].systemTime = ToUint32(systemTime),
               ![parentId].childTime = ToUint32(childTime)]

\* (mutant) the duration is added to the popped scope's own slot.
AddChildTimeOwnSlot(childTimeStack, top, duration) ==
  [childTimeStack EXCEPT ![top] = ToUint32(duration)]

\* childTimeStack[stackTop] = 0; childTimeStack[stackTop - 1] += duration.
AddChildTime(childTimeStack, top, duration) ==
  [childTimeStack EXCEPT
     ![top] = 0, ![top - 1] = ToUint32(childTimeStack[top - 1] + duration)]

\* systemTimeStack[stackTop] = 0; systemTimeStack[stackTop - 1] += systemTime.
AddSystemTime(systemTimeStack, top, systemTime) ==
  [systemTimeStack EXCEPT
     ![top] = 0, ![top - 1] = ToUint32(systemTimeStack[top - 1] + systemTime)]

\* Whether typeStack[stackTop].flags has SYSTEM_TIME, read after the pop.
PoppedTypeHasSystemTime(st, top) ==
  "SYSTEM_TIME" \in st.types[st.typeStack[top]].flags

\* The wtf.scope#leave branch.  top is stackTop after the decrement; at -1
\* the typed-array reads give undefined (stored as 0), the writes to slots
\* -1 and -2 are dropped, and typeStack[-1].flags raises.
ScopeLeaveBranch(st, data, n, parentId, nextEventId) ==
  LET top == st.stackTop - 1
      time == data[n].time
      duration == time - data[parentId].time
      childTime == IF top >= 0 THEN st.childTimeStack[top] ELSE 0
      systemTime == IF top >= 0 THEN st.systemTimeStack[top] ELSE 0
      d2 == LinkSiblings(data, n, parentId, nextEventId)
      d3 == CloseScope(d2, parentId, time, systemTime, childTime)
      st2 == [st EXCEPT !.data = d3, !.stackTop = top]
  IN IF top < 0 THEN [st2 EXCEPT !.threw = TRUE]
     ELSE IF top = 0
     THEN [st2 EXCEPT !.childTimeStack[0] = 0, !.systemTimeStack[0] = 0]
     ELSE LET sys == IF PoppedTypeHasSystemTime(st, top)
                     THEN systemTime + duration ELSE systemTime
          IN [st2 EXCEPT
                !.childTimeStack = AddChildTime(st.childTimeStack, top, duration),
                !.systemTimeStack = AddSystemTime(st.systemTimeStack, top, sys)]

\* appendScopeData_(scopeId, argsId): adopt the arguments, or merge them
\* into the scope's argument data (in place).
AppendScopeData(st, data, scopeId, argsId) ==
  LET scopeArgsId == data[scopeId].arguments
  IN IF scopeArgsId = 0
     THEN [st EXCEPT !.data = [data EXCEPT ![scopeId].arguments = argsId]]
     ELSE IF argsId = 0 THEN [st EXCEPT !.data = data, !.threw = TRUE]
     ELSE [st EXCEPT !.data = data,
                     !.args[scopeArgsId] =
                        MergeArgs(st.args[scopeArgsId], st.args[argsId])]

\* The generic wtf.trace#timeStamp branch.
TimeStampBranch(st, data, n) ==
  LET argsId == data[n].arguments
  IN IF argsId = 0 THEN [st EXCEPT !.data = data, !.threw = TRUE]
     ELSE LET name == st.args[argsId].name
              types2 == IF GetByName(st.types, name) = 0
                        THEN DefineType(st.types, CreateInstance(name))
                        ELSE st.types
              newId == GetByName(types2, name)
          IN [st EXCEPT !.types = types2,
                        !.data = [data EXCEPT ![n].type = ToUint32(newId)]]

\* The remaining event types: a type of class SCOPE enters a scope.
OtherTypeBranch(st, data, n, typeId) ==
  IF st.types[typeId].eventClass = "SCOPE"
  THEN PushScope(st, data, data[n].id, typeId)
  ELSE [st EXCEPT !.data = data]

\* (mutant) the ID cell of the record itself.
NextEventIdOwn(st, n) == IF n < st.count - 1 THEN st.data[n].id ELSE 0

\* nextEventId: the ID cell of the record behind record n, 0 behind the
\* last one.
NextEventId(st, n) == IF n < st.count - 1 THEN st.data[n + 1].id ELSE 0

\* One turn of the loop over the records, for record n.  The four ids are
\* looked up once, before the loop.
RescopeStep(st, n, scopeEnterId, scopeLeaveId, appendScopeDataId, timeStampId) ==
  LET parentId == ParentId(st)
      nextEventId == NextEventId(st, n)
      d1 == [st.data EXCEPT ![n].parent = ToUint32(parentId),
                            ![n].depth = DepthCell(st),
                            ![n].nextSibling = nextEventId]
      typeId == d1[n].type
  IN IF typeId = scopeEnterId THEN ScopeEnterBranch(st, d1, n)
     ELSE IF typeId = scopeLeaveId
     THEN ScopeLeaveBranch(st, d1, n, parentId, nextEventId)
     ELSE IF typeId = appendScopeDataId
     THEN AppendScopeData(st, d1, st.stack[st.stackTop], d1[n].arguments)
     ELSE IF typeId = timeStampId THEN TimeStampBranch(st, d1, n)
     ELSE OtherTypeBranch(st, d1, n, typeId)

\* getByName(...) ? .id : -1 ; a TYPE cell never equals -1.
IdOrMinusOne(types, name) ==
  IF GetByName(types, name) = 0 THEN -1 ELSE GetByName(types, name)

RECURSIVE RescopeLoop(_, _, _, _, _, _)
RescopeLoop(st, n, scopeEnterId, scopeLeaveId, appendScopeDataId, timeStampId) ==
  IF n >= st.count \/ st.threw THEN st
  ELSE RescopeLoop(
         RescopeStep(st, n, scopeEnterId, scopeLeaveId, appendScopeDataId,
                     timeStampId),
         n + 1, scopeEnterId, scopeLeaveId, appendScopeDataId, timeStampId)

\* rescopeEvents_ on the re-sorted data: the state the scan ends in.
RescopeEvents(data, n, types, args) ==
  RescopeLoop(RescopeStart(data, n, types, args), 0,
              IdOrMinusOne(types, "wtf.scope#enter"),
              IdOrMinusOne(types, "wtf.scope#leave"),
              IdOrMinusOne(types, "wtf.scope#appendData"),
              IdOrMinusOne(types, "wtf.trace#timeStamp"))

\* The records the scan has to open as scopes, read off the re-sorted data
\* before the scan: a generic enter, or a type of class SCOPE that is none
\* of the four dispatched ids.
IsOpener(data, i, types) ==
  LET t == data[i].type
  IN \/ t = GetByName(types, "wtf.scope#enter")
     \/ /\ t \in 1 .. Len(types)
        /\ types[t].name \notin {"wtf.scope#leave", "wtf.scope#appendData",
                                 "wtf.trace#timeStamp"}
        /\ types[t].eventClass = "SCOPE"

\* ------------------------------------------------------------ frame lists
\* The frame lists that may be created on the store.
Lists == {1, 2}

FrameStartName == "wtf.timing#frameStart"

FrameEndName == "wtf.timing#frameEnd"

\* The frame event types as a trace header declares them.
FrameStartType ==
  [name |-> FrameStartName, eventClass |-> "INSTANCE", flags |-> {"INTERNAL"}]

FrameEndType ==
  [name |-> FrameEndName, eventClass |-> "INSTANCE", flags |-> {"INTERNAL"}]

\* new wtf.db.Frame(number); time and endTime are kept in microseconds.
NewFrame(number) == [number |-> number, time |-> 0, endTime |-> 0]

\* Frame.setStartEvent(it) and Frame.setEndEvent(it) with it on record r.
SetStartEvent(frame, r) == [frame EXCEPT !.time = r.time]

SetEndEvent(frame, r) == [frame EXCEPT !.endTime = r.time]

\* EventIterator.getArgument('number') on record r: 0 for undefined.
GetArgumentNumber(r, args) ==
  IF r.arguments = 0 THEN 0 ELSE args[r.arguments].extra

\* FrameList.beginRebuild(eventTypeTable): the ids of the two types, 0 for
\* null.
BeginRebuild(types) ==
  << GetByName(types, FrameStartName), GetByName(types, FrameEndName) >>

\* The value of a finite map m extended or overwritten at key k.
MapPut(m, k, v) == [x \in DOMAIN m \cup {k} |-> IF x = k THEN v ELSE m[x]]

\* Mutation: handleEvent pushes the frame on the dense array at every event.
HandleEventPushing(fl, eventTypeIndex, r, args) ==
  LET number == GetArgumentNumber(r, args)
      known == number \in DOMAIN fl.frames
      frame == IF known THEN fl.frames[number] ELSE NewFrame(number)
      set == IF eventTypeIndex = 0 THEN SetStartEvent(frame, r)
             ELSE IF eventTypeIndex = 1 THEN SetEndEvent(frame, r)
             ELSE frame
  IN [frames |-> MapPut(fl.frames, number, set),
      frameList |-> Append(fl.frameList, number)]

\* FrameList.handleEvent(eventTypeIndex, eventType, it) on the list
\* fl = [frames, frameList], it standing on record r.
HandleEvent(fl, eventTypeIndex, r, args) ==
  LET number == GetArgumentNumber(r, args)
      known == number \in DOMAIN fl.frames
      frame == IF known THEN fl.frames[number] ELSE NewFrame(number)
      frameList == IF known THEN fl.frameList ELSE Append(fl.frameList, number)
      set == IF eventTypeIndex = 0 THEN SetStartEvent(frame, r)
             ELSE IF eventTypeIndex = 1 THEN SetEndEvent(frame, r)
             ELSE frame
  IN [frames |-> MapPut(fl.frames, number, set), frameList |-> frameList]

\* The test of endRebuild: frame.getTime() && frame.getEndTime().
FrameIsWhole(frame) == frame.time # 0 /\ frame.endTime # 0

\* Mutation: endRebuild keeps every frame.
EndRebuildKeepAll(fl) == fl

\* FrameList.endRebuild(): partial frames leave both collections.
EndRebuild(fl) ==
  LET whole(number) == FrameIsWhole(fl.frames[number])
      kept == {x \in DOMAIN fl.frames :
                 (\A k \in 1 .. Len(fl.frameList) :
                     fl.frameList[k] = x => whole(x))}
  IN [frames |-> [x \in kept |-> fl.frames[x]],
      frameList |-> SelectSeq(fl.frameList, whole)]

\* FrameList.getCount() of the list fl = [frames, frameList].
FrameListGetCount(fl) == Len(fl.frameList)

\* What stands for null where a frame is expected.
NullFrame == [number |-> -1, time |-> 0, endTime |-> 0]

\* FrameList.getFrame(value): the frame, or null.
GetFrame(fl, value) ==
  IF value \in DOMAIN fl.frames THEN fl.frames[value] ELSE NullFrame

\* wtf.db.Frame.selector called on frame with this = {time: time}, time in
\* microseconds: positive when the time lies after the start of the frame.
FrameSelector(time, frame) == time - frame.time

\* goog.array.binarySelect(arr, evaluator, opt_obj) over the frames of
\* fl.frameList: the index of a frame the evaluator gives 0 for, else
\* -(insertion point) - 1.
RECURSIVE BinarySelectLoop(_, _, _, _, _)
BinarySelectLoop(fl, time, left, right, found) ==
  IF left < right
  THEN LET middle == (left + right) \div 2
           compareResult ==
             FrameSelector(time, fl.frames[fl.frameList[middle + 1]])
       IN IF compareResult > 0
          THEN BinarySelectLoop(fl, time, middle + 1, right, found)
          ELSE BinarySelectLoop(fl, time, left, middle, compareResult = 0)
  ELSE IF found THEN left ELSE -left - 1

BinarySelect(fl, time) == BinarySelectLoop(fl, time, 0, Len(fl.frameList), FALSE)

\* goog.math.clamp(value, min, max).
Clamp(value, min, max) ==
  IF value < min THEN min ELSE IF value > max THEN max ELSE value

\* FrameList.getFrameAtTime(time), time in milliseconds: the number of the
\* frame, -1 for null.
GetFrameAtTime(fl, time) ==
  IF Len(fl.frameList) = 0 THEN -1
  ELSE LET selected == BinarySelect(fl, time * 1000)
           index == Clamp(IF selected < 0 THEN -selected - 2 ELSE selected,
                          0, Len(fl.frameList) - 1)
           frame == fl.frames[fl.frameList[index + 1]]
       IN IF frame.time <= time * 1000 /\ frame.endTime >= time * 1000
          THEN frame.number ELSE -1

\* ------------------------------------------------------------ rebuildAncillaryLists_
\* One entry of the log of callbacks: eventTypeIndex, eventType and index
\* (the position of the iterator) are -1 where the callback has none.
Call(fn, list, eventTypeIndex, eventType, index) ==
  [fn |-> fn, list |-> list, eventTypeIndex |-> eventTypeIndex,
   eventType |-> eventType, index |-> index]

\* Mutation: eventTypeIndex counts only the non-null entries before m.
RECURSIVE HandlersOfListCompact(_, _, _, _)
HandlersOfListCompact(list, desiredTypes, typeId, m) ==
  IF m >= Len(desiredTypes) THEN << >>
  ELSE LET desiredType == desiredTypes[m + 1]
           rest == HandlersOfListCompact(list, desiredTypes, typeId, m + 1)
           nonNull == Cardinality({k \in 1 .. m : desiredTypes[k] # 0})
       IN IF desiredType = 0 \/ desiredType # typeId THEN rest
          ELSE << [list |-> list, eventTypeIndex |-> nonNull,
                   eventType |-> desiredType] >> \o rest

\* The handlers one list adds to typeMap[typeId]: one for each position m of
\* its desired types that holds that type; null entries are passed over.
RECURSIVE HandlersOfList(_, _, _, _)
HandlersOfList(list, desiredTypes, typeId, m) ==
  IF m >= Len(desiredTypes) THEN << >>
  ELSE LET desiredType == desiredTypes[m + 1]
           rest == HandlersOfList(list, desiredTypes, typeId, m + 1)
       IN IF desiredType = 0 \/ desiredType # typeId THEN rest
          ELSE << [list |-> list, eventTypeIndex |-> m,
                   eventType |-> desiredType] >> \o rest

\* typeMap[typeId] after the first loop over lists.
RECURSIVE TypeMapAt(_, _, _)
TypeMapAt(lists, types, typeId) ==
  IF lists = << >> THEN << >>
  ELSE HandlersOfList(Head(lists), BeginRebuild(types), typeId, 0)
         \o TypeMapAt(Tail(lists), types, typeId)

\* The beginRebuild calls of the first loop.
BeginRebuildCalls(lists) ==
  [k \in 1 .. Len(lists) |-> Call("beginRebuild", lists[k], -1, -1, -1)]

\* EventIterator.seek(index) of an iterator over firstIndex .. lastIndex:
\* the position it stands on.
Seek(lastIndex, index) == IF index < 0 THEN lastIndex + 1 ELSE index

\* The inner loop: each handler of record n gets the iterator after
\* it.seek(n).
RECURSIVE DispatchHandlers(_, _, _, _, _)
DispatchHandlers(ls, handlers, data, args, n) ==
  IF handlers = << >> THEN ls
  ELSE LET handler == Head(handlers)
           it == Seek(ls.lastIndex, n)
           fl == HandleEvent([frames |-> ls.frames[handler.list],
                              frameList |-> ls.frameList[handler.list]],
                             handler.eventTypeIndex, data[it], args)
           after ==
             [ls EXCEPT !.frames[handler.list] = fl.frames,
                        !.frameList[handler.list] = fl.frameList,
                        !.it = it,
                        !.calls = Append(@, Call("handleEvent", handler.list,
                                                 handler.eventTypeIndex,
                                                 handler.eventType, it))]
       IN DispatchHandlers(after, Tail(handlers), data, args, n)

\* The loop over all events.
RECURSIVE DispatchEvents(_, _, _, _, _, _, _)
DispatchEvents(ls, lists, data, cnt, types, args, n) ==
  IF n >= cnt THEN ls
  ELSE DispatchEvents(
         DispatchHandlers(ls, TypeMapAt(lists, types, data[n].type),
                          data, args, n),
         lists, data, cnt, types, args, n + 1)

\* The last loop: endRebuild on every list, each ending with its
\* INVALIDATED event.
RECURSIVE EndRebuilds(_, _)
EndRebuilds(ls, lists) ==
  IF lists = << >> THEN ls
  ELSE LET list == Head(lists)
           fl == EndRebuild([frames |-> ls.frames[list],
                             frameList |-> ls.frameList[list]])
           after ==
             [ls EXCEPT !.frames[list] = fl.frames,
                        !.frameList[list] = fl.frameList,
                        !.calls = @ \o << Call("endRebuild", list, -1, -1, -1),
                                          Call("INVALIDATED", list, -1, -1, -1) >>]
       IN EndRebuilds(after, Tail(lists))

\* EventList.rebuildAncillaryLists_(lists) on the records data[0 .. cnt-1].
RebuildAncillaryLists(lists, data, cnt, types, args, frames, frameList) ==
  LET start == [frames |-> frames, frameList |-> frameList,
                calls |-> BeginRebuildCalls(lists),
                lastIndex |-> cnt - 1, it |-> Seek(cnt - 1, 0)]
  IN IF lists = << >>
     THEN [start EXCEPT !.calls = << >>]
     ELSE EndRebuilds(DispatchEvents(start, lists, data, cnt, types, args, 0),
                      lists)

\* ------------------------------------------------------------ rebuild
\* EventList.rebuild(): resortEvents_, rescopeEvents_, then the ancillary
\* lists.  When the scan raises, the data it poked so far stays and
\* maximumScopeDepth_ is not reached.
Rebuild ==
  LET sorted == ResortedData(eventData, count)
      st == RescopeEvents(sorted, count, eventTypes, argumentData_)
  IN /\ eventData' = st.data
     /\ eventTypes' = st.types
     /\ argumentData_' = st.args
     /\ firstEventTime_' = FirstEventTimeOf(sorted, count)
     /\ lastEventTime_' = LastEventTimeOf(sorted, count)
     /\ maximumScopeDepth_' = IF st.threw THEN maximumScopeDepth_ ELSE st.stackMax
     /\ threw' = st.threw
     /\ opened' = {i \in Indices : IsOpener(sorted, i, eventTypes)}
     /\ lastOp' = "rebuild"
     /\ query' = NoQuery
     /\ LET ls == RebuildAncillaryLists(ancillaryLists_, st.data, count,
                                         st.types, st.args, frames_, frameList_)
        IN IF st.threw
           THEN calls' = << >> /\ UNCHANGED << frames_, frameList_ >>
           ELSE /\ frames_' = ls.frames
                /\ frameList_' = ls.frameList
                /\ calls' = ls.calls
     /\ UNCHANGED << count, ancillaryLists_, statVars, typeCall,
                     iterator >>

\* Mutation: a late registration rebuilds every registered list.
RegisterAncillaryListAll(value, frames, frameList) ==
  /\ ancillaryLists_' = Append(ancillaryLists_, value)
  /\ LET ls == RebuildAncillaryLists(Append(ancillaryLists_, value),
                                      eventData, count, eventTypes,
                                      argumentData_, frames, frameList)
     IN /\ frames_' = ls.frames
        /\ frameList_' = ls.frameList
        /\ calls' = ls.calls
  /\ lastOp' = "register"
  /\ query' = NoQuery
  /\ UNCHANGED << eventData, count, argumentData_, firstEventTime_,
                  lastEventTime_, maximumScopeDepth_, eventTypes, threw,
                  opened, statVars, typeCall,
                  iterator >>

\* EventList.registerAncillaryList(value): a store that holds events
\* rebuilds that one list at once.  frames and frameList are what the frame
\* lists hold when the call is made.
RegisterAncillaryList(value, frames, frameList) ==
  /\ ancillaryLists_' = Append(ancillaryLists_, value)
  /\ LET ls == RebuildAncillaryLists(<< value >>, eventData, count,
                                      eventTypes, argumentData_,
                                      frames, frameList)
     IN IF count # 0
        THEN /\ frames_' = ls.frames
             /\ frameList_' = ls.frameList
             /\ calls' = ls.calls
        ELSE /\ frames_' = frames
             /\ frameList_' = frameList
             /\ calls' = << >>
  /\ lastOp' = "register"
  /\ query' = NoQuery
  /\ UNCHANGED << eventData, count, argumentData_, firstEventTime_,
                  lastEventTime_, maximumScopeDepth_, eventTypes, threw,
                  opened, statVars, typeCall,
                  iterator >>

\* new wtf.db.FrameList(zone): the list starts empty and registers itself.
NewFrameList(list) ==
  RegisterAncillaryList(list, [frames_ EXCEPT ![list] = << >>],
                        [frameList_ EXCEPT ![list] = << >>])

\* goog.array.remove(arr, obj): the first occurrence of obj leaves arr.
RECURSIVE ArrayRemove(_, _)
ArrayRemove(arr, obj) ==
  IF arr = << >> THEN << >>
  ELSE IF Head(arr) = obj THEN Tail(arr)
  ELSE << Head(arr) >> \o ArrayRemove(Tail(arr), obj)

\* FrameList.disposeInternal(): EventList.unregisterAncillaryList(value).
UnregisterAncillaryList(value) ==
  /\ ancillaryLists_' = ArrayRemove(ancillaryLists_, value)
  /\ lastOp' = "unregister"
  /\ query' = NoQuery
  /\ calls' = << >>
  /\ UNCHANGED << eventData, count, argumentData_, firstEventTime_,
                  lastEventTime_, maximumScopeDepth_, eventTypes, threw,
                  opened, frames_, frameList_, statVars, typeCall,
                  iterator >>

\* ------------------------------------------------------------ lookups
\* The loop of getIndexOfEventNearTime: time is already in microseconds.
RECURSIVE NearTimeLoop(_, _, _, _)
NearTimeLoop(data, time, low, high) ==
  IF low < high
  THEN LET mid == (low + high) \div 2
       IN IF data[mid].time < time
          THEN NearTimeLoop(data, time, mid + 1, high)
          ELSE NearTimeLoop(data, time, low, mid)
  ELSE low

\* EventList.getIndexOfEventNearTime(time), time in milliseconds.
GetIndexOfEventNearTime(data, n, time) ==
  LET low == NearTimeLoop(data, time * 1000, 0, n - 1)
  IN IF low # 0 THEN low - 1 ELSE 0

NearTime(time) ==
  /\ query' = [op |-> "nearTime", time |-> time,
               result |-> GetIndexOfEventNearTime(eventData, count, time)]
  /\ UNCHANGED << eventData, count, argumentData_, firstEventTime_,
                  lastEventTime_, maximumScopeDepth_, eventTypes, lastOp,
                  threw, opened, listVars, calls, statVars, typeCall,
                  iterator >>

\* A cell read of record i: outside the records the buffer holds zeros (or
\* nothing, which reads as falsy), so every cell reads as 0.
RecordAt(data, n, i) == IF i \in 0 .. (n - 1) THEN data[i] ELSE ZeroRecord

\* The inner loop of getIndexOfRootScopeIncludingTime: follow PARENT depth
\* times.
RECURSIVE MoveToRoot(_, _, _, _)
MoveToRoot(data, n, i, depth) ==
  IF depth > 0 THEN MoveToRoot(data, n, RecordAt(data, n, i).parent, depth - 1)
  ELSE i

\* The outer loop of getIndexOfRootScopeIncludingTime, time in microseconds;
\* steps counts the iterations left before the walk is given up as endless
\* (result -1).
RECURSIVE RootScopeLoop(_, _, _, _, _, _)
RootScopeLoop(data, n, nearId, time, i, steps) ==
  IF i < 0 THEN nearId
  ELSE IF steps = 0 THEN -1
  ELSE LET root == MoveToRoot(data, n, i, RecordAt(data, n, i).depth)
           endTime == RecordAt(data, n, root).endTime
       IN IF endTime # 0
          THEN (IF endTime < time THEN nearId ELSE root)
          ELSE RootScopeLoop(data, n, nearId, time, root - 1, steps - 1)

\* EventList.getIndexOfRootScopeIncludingTime(time), time in milliseconds.
GetIndexOfRootScopeIncludingTime(data, n, time) ==
  LET nearId == GetIndexOfEventNearTime(data, n, time)
  IN IF nearId = 0 THEN 0
     ELSE RootScopeLoop(data, n, nearId, time * 1000, nearId, 2 * n + 2)

RootScopeIncludingTime(time) ==
  /\ query' = [op |-> "rootScope", time |-> time,
               result |-> GetIndexOfRootScopeIncludingTime(eventData, count, time)]
  /\ UNCHANGED << eventData, count, argumentData_, firstEventTime_,
                  lastEventTime_, maximumScopeDepth_, eventTypes, lastOp,
                  threw, opened, listVars, calls, statVars, typeCall,
                  iterator >>

\* ------------------------------------------------------------ readers
\* EventList.getCount().
GetCount == count

\* EventList.beginEventRange(startIndex, endIndex), walked with next() until
\* done(): the positions the iterator stands on.
BeginEventRangeVisits(startIndex, endIndex) == startIndex .. endIndex

\* EventList.begin(), walked with next() until done().
BeginVisits == BeginEventRangeVisits(0, GetCount)

\* EventList.beginTimeRange(startTime, endTime, opt_startAtRoot), walked with
\* next() until done(); times in milliseconds.
BeginTimeRangeVisits(startTime, endTime, startAtRoot) ==
  LET startIndex ==
        IF startAtRoot
        THEN GetIndexOfRootScopeIncludingTime(eventData, count, startTime)
        ELSE GetIndexOfEventNearTime(eventData, count, startTime)
      nearEnd == GetIndexOfEventNearTime(eventData, count, endTime)
      endIndex == IF nearEnd < startIndex THEN startIndex ELSE nearEnd
  IN BeginEventRangeVisits(startIndex, endIndex)

\* ------------------------------------------------------------ EventStatistics
\* wtf.db.SortMode.
ANY == 0
COUNT == 1
TOTAL_TIME == 2
MEAN_TIME == 3

\* The length of ScopeEventDataEntry.buckets_ and the bucket that takes
\* every longer duration.
BucketCount == 1000
LastBucket == 999

\* Number.MIN_VALUE and Number.MAX_VALUE times 1000, as the thresholds the
\* integer cells are compared with: no cell is below the first except 0,
\* every cell is below the second.
MinValueMicros == 1
MaxValueMicros == CellRange

NoStatCall ==
  [fn |-> "none", startTime |-> 0, endTime |-> 0, filter |-> "none",
   sortMode |-> ANY, raised |-> FALSE]

\* EventTypeTable.getById(id): the entry, or NoType for null.
NoType == [name |-> "", eventClass |-> "NONE", flags |-> {}]

GetById(types, id) == IF id \in 1 .. Len(types) THEN types[id] ELSE NoType

\* The loop of getIndexOfEventNearTime with the time given in microseconds.
IndexNearMicros(data, n, micros) ==
  LET low == NearTimeLoop(data, micros, 0, n - 1)
  IN IF low # 0 THEN low - 1 ELSE 0

\* The filter functions a caller passes: none, or one that accepts the
\* events the iterator reports as scopes.
Filters == {"none", "isScope"}

\* EventIterator.isScope().
IsScope(r) == r.endTime # 0

FilterAccepts(filter, r) == filter = "none" \/ IsScope(r)

\* EventIterator.getTotalDuration() and getUserDuration(), in microseconds
\* (the code divides both by 1000).
GetTotalDuration(r) == r.endTime - r.time

GetUserDuration(r) == r.endTime - r.time - r.systemTime

\* getOwnDuration: the total duration less CHILD_TIME.
GetOwnDuration(r) == r.endTime - r.time - r.childTime

\* Math.round of a duration in milliseconds, given in microseconds: halves
\* round up.
MathRound(micros) == (micros + 500) \div 1000

ScopeEventDataEntry(typeId) ==
  [eventType |-> typeId, scope |-> TRUE, count |-> 0, totalTime_ |-> 0,
   userTime_ |-> 0, buckets_ |-> << >>]

InstanceEventDataEntry(typeId) ==
  [eventType |-> typeId, scope |-> FALSE, count |-> 0]

\* buckets_[bucketIndex]++ on the Uint32Array: buckets_ is kept as the map
\* of the buckets that are not 0; a write outside 0 .. BucketCount - 1 is
\* dropped by the typed array.
IncrementBucket(buckets, bucketIndex) ==
  IF bucketIndex \in 0 .. (BucketCount - 1)
  THEN MapPut(buckets, bucketIndex,
              (IF bucketIndex \in DOMAIN buckets THEN buckets[bucketIndex]
               ELSE 0) + 1)
  ELSE buckets

\* The bucket index appendEvent computes for a user duration.
BucketIndex(userDuration) ==
  LET rounded == MathRound(userDuration)
  IN IF rounded >= BucketCount THEN LastBucket ELSE rounded

\* ScopeEventDataEntry.appendEvent(it), it standing on record r.
ScopeAppendEvent(entry, r) ==
  LET userDuration == GetUserDuration(r)
      bucketIndex == BucketIndex(userDuration)
  IN [entry EXCEPT !.count = @ + 1,
                   !.totalTime_ = @ + GetTotalDuration(r),
                   !.userTime_ = @ + userDuration,
                   !.buckets_ = IncrementBucket(@, bucketIndex)]

\* InstanceEventDataEntry.appendEvent(it).
InstanceAppendEvent(entry, r) == [entry EXCEPT !.count = @ + 1]

AppendEvent(entry, r) ==
  IF entry.scope THEN ScopeAppendEvent(entry, r)
  ELSE InstanceAppendEvent(entry, r)

\* tableById[type.id]: the position of the entry in the list, 0 for none.
EntryOfType(list, typeId) ==
  IF \E n \in 1 .. Len(list) : list[n].eventType = typeId
  THEN CHOOSE n \in 1 .. Len(list) : list[n].eventType = typeId
  ELSE 0

\* One turn of the loop of EventStatistics.rebuild, the iterator standing on
\* record i; st = [list, filteredEventCount, raised].
StatisticsStep(st, data, n, types, filter, i) ==
  LET r == RecordAt(data, n, i)
      type == GetById(types, IF i < n THEN r.type ELSE -1)
  IN IF type = NoType THEN [st EXCEPT !.raised = TRUE]
     ELSE IF "INTERNAL" \in type.flags \/ "BUILTIN" \in type.flags THEN st
     ELSE IF ~FilterAccepts(filter, r) THEN st
     ELSE LET found == EntryOfType(st.list, r.type)
              list == IF found # 0 THEN st.list
                      ELSE Append(st.list,
                                  IF IsScope(r) THEN ScopeEventDataEntry(r.type)
                                  ELSE InstanceEventDataEntry(r.type))
              at == IF found # 0 THEN found ELSE Len(list)
          IN [st EXCEPT !.list = [list EXCEPT ![at] = AppendEvent(@, r)],
                        !.filteredEventCount = @ + 1]

RECURSIVE StatisticsLoop(_, _, _, _, _, _, _)
StatisticsLoop(st, data, n, types, filter, i, lastIndex) ==
  IF i > lastIndex \/ st.raised THEN st
  ELSE StatisticsLoop(StatisticsStep(st, data, n, types, filter, i),
                      data, n, types, filter, i + 1, lastIndex)

\* (mutant) rebuild keeps the cached sort mode.
RebuiltSortModeKept(previous) == previous

\* The sort mode rebuild leaves.
RebuiltSortMode(previous) == ANY

\* EventStatistics.rebuild(startTime, endTime, opt_filter) over the one zone
\* of the database; the times are in microseconds.
StatisticsRebuild(startTime, endTime, filter) ==
  LET startIndex == IndexNearMicros(eventData, count, startTime)
      nearEnd == IndexNearMicros(eventData, count, endTime)
      endIndex == IF nearEnd < startIndex THEN startIndex ELSE nearEnd
      st == StatisticsLoop([list |-> << >>, filteredEventCount |-> 0,
                            raised |-> FALSE],
                           eventData, count, eventTypes, filter,
                           startIndex, endIndex)
  IN /\ filteredEventCount_' = st.filteredEventCount
     /\ list_' = IF st.raised THEN list_ ELSE st.list
     /\ listSortMode_' = IF st.raised THEN listSortMode_
                         ELSE RebuiltSortMode(listSortMode_)
     /\ statCall' = [fn |-> "rebuild", startTime |-> startTime,
                     endTime |-> endTime, filter |-> filter,
                     sortMode |-> ANY, raised |-> st.raised]
     /\ lastOp' = "statistics"
     /\ UNCHANGED << eventData, count, argumentData_, firstEventTime_,
                     lastEventTime_, maximumScopeDepth_, eventTypes, threw,
                     opened, query, listVars, calls, typeCall,
                     iterator >>

\* ScopeEventDataEntry.getMeanTime() is meanTime / count of these.
MeanTimeSum(entry, types) ==
  IF "SYSTEM_TIME" \in GetById(types, entry.eventType).flags
  THEN entry.totalTime_ ELSE entry.userTime_

\* The comparators of forEach: negative when a goes first.  The difference
\* of two mean times has the sign of the cross product, the counts of
\* listed entries being positive.
CompareEntries(sortMode, a, b, types) ==
  IF sortMode = COUNT THEN b.count - a.count
  ELSE IF a.scope /\ b.scope
  THEN (IF sortMode = TOTAL_TIME THEN b.totalTime_ - a.totalTime_
        ELSE MeanTimeSum(b, types) * a.count - MeanTimeSum(a, types) * b.count)
  ELSE IF a.scope THEN -1
  ELSE IF b.scope THEN 1
  ELSE b.count - a.count

\* Array.prototype.sort: x goes behind the entries it does not precede.
RECURSIVE SortEntryInsert(_, _, _, _)
SortEntryInsert(sortMode, s, x, types) ==
  IF s = << >> THEN << x >>
  ELSE IF CompareEntries(sortMode, s[Len(s)], x, types) <= 0
  THEN Append(s, x)
  ELSE Append(SortEntryInsert(sortMode, SubSeq(s, 1, Len(s) - 1), x, types),
              s[Len(s)])

RECURSIVE SortEntries(_, _, _)
SortEntries(sortMode, list, types) ==
  IF list = << >> THEN << >>
  ELSE SortEntryInsert(sortMode,
                       SortEntries(sortMode, SubSeq(list, 1, Len(list) - 1),
                                   types),
                       list[Len(list)], types)

\* EventStatistics.forEach(callback, opt_scope, opt_sortMode): the callback
\* receives the entries of list_ in the order the call leaves them in.
ForEach(sortMode) ==
  LET sorts == sortMode # ANY /\ listSortMode_ # sortMode
  IN /\ listSortMode_' = IF sorts THEN sortMode ELSE listSortMode_
     /\ list_' = IF sorts THEN SortEntries(sortMode, list_, eventTypes)
                 ELSE list_
     /\ statCall' = [NoStatCall EXCEPT !.fn = "forEach", !.sortMode = sortMode]
     /\ lastOp' = "statistics"
     /\ UNCHANGED << eventData, count, argumentData_, firstEventTime_,
                     lastEventTime_, maximumScopeDepth_, eventTypes, threw,
                     opened, query, listVars, calls, filteredEventCount_,
                     typeCall,
                     iterator >>

\* EventStatistics.getFilteredEventCount().
GetFilteredEventCount == filteredEventCount_

\* ------------------------------------------------------------ EventIterator
\* The cells of a record in the order of wtf.db.EventStruct: the cell at
\* offset k of a record is the field EventStruct[k + 1].
EventStruct ==
  << "id", "type", "parent", "depth", "time", "nextSibling", "arguments",
     "value", "tag", "endTime", "systemTime", "childTime" >>

StructSize == Len(EventStruct)

OffsetOf(field) == CHOOSE k \in 0 .. (StructSize - 1) : EventStruct[k + 1] = field

\* What a read outside the typed array gives: undefined.
Undefined == -1

\* eventData.length: capacity_ records.
BufferLength == capacity_ * StructSize

InBuffer(cell) == cell >= 0 /\ cell < BufferLength

\* eventData_[cell]: the cells behind the last record are zero unless they
\* were written.
ReadCell(cell) ==
  IF ~InBuffer(cell) THEN Undefined
  ELSE IF cell \div StructSize \in DOMAIN eventData
  THEN eventData[cell \div StructSize][EventStruct[(cell % StructSize) + 1]]
  ELSE 0

\* eventData_[cell] = value: a write outside the typed array is dropped, a
\* write behind the last record stays in the buffer.
WriteCell(data, cell, value) ==
  LET slot == cell \div StructSize
      top == Max(slot, Cardinality(DOMAIN data) - 1)
      slots == [i \in 0 .. top |->
                  IF i \in DOMAIN data THEN data[i] ELSE ZeroRecord]
  IN IF ~InBuffer(cell) THEN data
     ELSE [slots EXCEPT ![slot][EventStruct[(cell % StructSize) + 1]] =
                          ToUint32(value)]

\* A value in a condition: undefined and 0 are falsy.
Truthy(cell) == cell # Undefined /\ cell # 0

\* No iterator in use.  The fields of an iterator are those of
\* EventIterator (offset_ counts cells, and is -1 until a seek sets it),
\* with the last call made on it, whether that call raised, what it
\* returned where the claims need it, and whether it read outside the
\* buffer.
NoIterator ==
  [firstIndex_ |-> 0, lastIndex_ |-> -1, index_ |-> 0, offset_ |-> -1,
   call |-> "none", raised |-> FALSE, result |-> 0, beyond |-> FALSE]

\* EventIterator.seek(index), without an indirection table.
SeekTo(it, index) ==
  IF index < 0 THEN [it EXCEPT !.index_ = it.lastIndex_ + 1]
  ELSE IF index > it.lastIndex_ THEN [it EXCEPT !.index_ = index]
  ELSE [it EXCEPT !.index_ = index, !.offset_ = index * StructSize]

\* new EventIterator(eventList, firstIndex, lastIndex, index).
NewIterator(firstIndex, lastIndex, index) ==
  SeekTo([NoIterator EXCEPT !.firstIndex_ = firstIndex,
                            !.lastIndex_ = lastIndex,
                            !.index_ = index,
                            !.call = "new"], index)

\* EventIterator.next().
MoveNext(it) ==
  [it EXCEPT !.index_ = it.index_ + 1,
             !.offset_ = (it.index_ + 1) * StructSize]

\* (mutant) the loop looks at the record it stands on before it moves.
ScanFromHere(it, i, o) == [i |-> i, o |-> o]

\* The loop of nextScope / nextInstance moves first and looks then.
ScanFromNext(it, i, o) == [i |-> i + 1, o |-> o + StructSize]

\* The loop of nextScope (wantScope) and nextInstance: i and o after it, and
\* whether a cell outside the buffer was read.
RECURSIVE ScanLoop(_, _, _, _, _)
ScanLoop(it, i, o, wantScope, beyond) ==
  IF i <= it.lastIndex_
  THEN LET at == ScanFromNext(it, i, o)
           cell == at.o + OffsetOf("endTime")
           b == beyond \/ ~InBuffer(cell)
       IN IF Truthy(ReadCell(cell)) = wantScope
          THEN [i |-> at.i, o |-> at.o, beyond |-> b]
          ELSE ScanLoop(it, at.i, at.o, wantScope, b)
  ELSE [i |-> i, o |-> o, beyond |-> beyond]

\* EventIterator.nextScope().
NextScope(it) ==
  LET r == ScanLoop(it, it.index_, it.offset_, TRUE, FALSE)
  IN [it EXCEPT !.index_ = r.i, !.offset_ = r.o, !.beyond = r.beyond]

\* EventIterator.nextInstance().
NextInstance(it) ==
  LET r == ScanLoop(it, it.index_, it.offset_, FALSE, FALSE)
  IN [it EXCEPT !.index_ = r.i, !.offset_ = r.o, !.beyond = r.beyond]

\* EventIterator.done().
Done(it) == it.index_ > it.lastIndex_

\* The PARENT cell passes the test parentIndex >= 0 when it is a number; the
\* comparison undefined >= 0 is false.
HasParentIndex(parentIndex) == parentIndex # Undefined

\* EventIterator.moveToParent().
MoveToParent(it) ==
  LET parentIndex == ReadCell(it.offset_ + OffsetOf("parent"))
  IN IF HasParentIndex(parentIndex) THEN SeekTo(it, parentIndex)
     ELSE SeekTo(it, it.lastIndex_ + 1)

\* EventIterator.getParent(): the iterator returned (over 0 .. count, on
\* the PARENT cell), or NoIterator for null.
GetParent(it) ==
  LET parentIndex == ReadCell(it.offset_ + OffsetOf("parent"))
  IN IF HasParentIndex(parentIndex)
     THEN NewIterator(0, count, parentIndex)
     ELSE NoIterator

\* EventIterator.getType(): the id of the type, 0 for null.
GetType(it) ==
  LET typeId == ReadCell(it.offset_ + OffsetOf("type"))
  IN IF typeId \in 1 .. Len(eventTypes) THEN typeId ELSE 0

\* The getters of the current event.
Getters ==
  {"getId", "getType", "getName", "getTypeFlags", "getTime", "getArguments",
   "getArgument"}

\* Whether a getter raises: getName and getTypeFlags dereference what
\* getType returned; the others read cells and test what they read.
GetterRaises(it, getter) ==
  getter \in {"getName", "getTypeFlags"} /\ GetType(it) = 0

\* The cell a getter reads.
GetterCell(it, getter) ==
  it.offset_ + OffsetOf(CASE getter = "getId" -> "id"
                          [] getter \in {"getType", "getName", "getTypeFlags"}
                               -> "type"
                          [] getter = "getTime" -> "time"
                          [] OTHER -> "arguments")

\* The calls on the iterator in use, as actions.
IteratorStep(it) ==
  /\ iterator' = it
  /\ UNCHANGED << eventData, count, argumentData_, firstEventTime_,
                  lastEventTime_, maximumScopeDepth_, eventTypes, lastOp,
                  threw, opened, query, listVars, calls, statVars, typeCall >>

Begin == IteratorStep(NewIterator(0, GetCount, 0))

BeginEventRange(startIndex, endIndex) ==
  IteratorStep(NewIterator(startIndex, endIndex, startIndex))

IteratorSeek(index) ==
  IteratorStep([SeekTo(iterator, index) EXCEPT
                  !.call = "seek", !.raised = FALSE, !.result = index,
                  !.beyond = FALSE])

IteratorNext ==
  IteratorStep([MoveNext(iterator) EXCEPT
                  !.call = "next", !.raised = FALSE, !.result = 0,
                  !.beyond = FALSE])

IteratorNextScope ==
  IteratorStep([NextScope(iterator) EXCEPT
                  !.call = "nextScope", !.raised = FALSE,
                  !.result = iterator.index_])

IteratorNextInstance ==
  IteratorStep([NextInstance(iterator) EXCEPT
                  !.call = "nextInstance", !.raised = FALSE,
                  !.result = iterator.index_])

\* moveToParent(); result keeps the offset the call was made at.
IteratorMoveToParent ==
  IteratorStep([MoveToParent(iterator) EXCEPT
                  !.call = "moveToParent", !.raised = FALSE,
                  !.result = iterator.offset_, !.beyond = FALSE])

\* getParent(); result is the index_ of the iterator returned, Undefined
\* for null.
IteratorGetParent ==
  IteratorStep([iterator EXCEPT
                  !.call = "getParent", !.raised = FALSE,
                  !.result = IF GetParent(iterator) = NoIterator
                             THEN Undefined
                             ELSE GetParent(iterator).index_,
                  !.beyond = FALSE])

\* EventIterator.nextSibling(): seek to the NEXT_SIBLING cell (a read
\* outside the buffer gives undefined, which seek takes as index; no test
\* orders undefined, so offset_ becomes NaN).
NextSibling(it) ==
  LET next == ReadCell(it.offset_ + OffsetOf("nextSibling"))
  IN IF next = Undefined THEN [it EXCEPT !.index_ = it.lastIndex_ + 1]
     ELSE SeekTo(it, next)

IteratorNextSibling ==
  IteratorStep([NextSibling(iterator) EXCEPT
                  !.call = "nextSibling", !.raised = FALSE,
                  !.result = iterator.index_, !.beyond = FALSE])

\* EventIterator.getTag().
GetTag(it) == ReadCell(it.offset_ + OffsetOf("tag"))

\* EventIterator.setTag(value): the store into the buffer.
SetTag(it, value) == WriteCell(eventData, it.offset_ + OffsetOf("tag"), value)

IteratorSetTag(value) ==
  /\ eventData' = SetTag(iterator, value)
  /\ iterator' = [iterator EXCEPT
                    !.call = "setTag", !.raised = FALSE, !.result = value,
                    !.beyond = ~InBuffer(iterator.offset_ + OffsetOf("tag"))]
  /\ UNCHANGED << count, argumentData_, firstEventTime_, lastEventTime_,
                  maximumScopeDepth_, eventTypes, lastOp, threw, opened,
                  query, listVars, calls, statVars, typeCall >>

IteratorGet(getter) ==
  IteratorStep([iterator EXCEPT
                  !.call = getter,
                  !.raised = GetterRaises(iterator, getter),
                  !.result = 0,
                  !.beyond = ~InBuffer(GetterCell(iterator, getter))])

\* ------------------------------------------------------------ the system
Init ==
  /\ eventData = << >>
  /\ count = 0
  /\ argumentData_ = << >>
  /\ firstEventTime_ = 0
  /\ lastEventTime_ = 0
  /\ maximumScopeDepth_ = 0
  /\ eventTypes = InitialTypes
  /\ lastOp = "init"
  /\ threw = FALSE
  /\ opened = {}
  /\ query = NoQuery
  /\ ancillaryLists_ = << >>
  /\ frames_ = [l \in Lists |-> << >>]
  /\ frameList_ = [l \in Lists |-> << >>]
  /\ calls = << >>
  /\ list_ = << >>
  /\ listSortMode_ = ANY
  /\ filteredEventCount_ = 0
  /\ statCall = NoStatCall
  /\ typeCall = NoTypeCall
  /\ iterator = NoIterator

\* What a data source inserts: generic enters and timeStamps carry a name,
\* appendData carries one other argument, leave and the declared scope type
\* carry no arguments.
InsertEnterAt(t, name) ==
  Insert(GetByName(eventTypes, "wtf.scope#enter"), t, TRUE, MakeArgs(name, 0))

InsertLeaveAt(t) ==
  Insert(GetByName(eventTypes, "wtf.scope#leave"), t, FALSE, MakeArgs("", 0))

InsertAppendDataAt(t) ==
  Insert(GetByName(eventTypes, "wtf.scope#appendData"), t, TRUE, MakeArgs("", 1))

InsertTimeStampAt(t, name) ==
  Insert(GetByName(eventTypes, "wtf.trace#timeStamp"), t, TRUE, MakeArgs(name, 0))

InsertSysAt(t) ==
  Insert(GetByName(eventTypes, "sys"), t, FALSE, MakeArgs("", 0))

\* Spec: events of every kind arrive in any order of their times, in any
\* number of batches.
Times == {k * TimeUnit : k \in 0 .. MaxTime}

InsertEnter ==
  /\ count < MaxEvents
  /\ \E t \in Times, name \in Names : InsertEnterAt(t, name)

InsertLeave ==
  /\ count < MaxEvents
  /\ \E t \in Times : InsertLeaveAt(t)

InsertAppendData ==
  /\ count < MaxEvents
  /\ \E t \in Times : InsertAppendDataAt(t)

InsertTimeStamp ==
  /\ count < MaxEvents
  /\ \E t \in Times, name \in Names : InsertTimeStampAt(t, name)

InsertSys ==
  /\ count < MaxEvents
  /\ \E t \in Times : InsertSysAt(t)

Next ==
  \/ InsertEnter
  \/ InsertLeave
  \/ InsertAppendData
  \/ InsertTimeStamp
  \/ InsertSys
  \/ Rebuild

Spec == Init /\ [][Next]_vars

\* SpecLookup: the same store, with the time lookups (in whole milliseconds,
\* up to one past the last event time).
QueryTimes == 0 .. ((MaxTime * TimeUnit) \div 1000 + 1)

Lookup == \E t \in QueryTimes : NearTime(t)

NextLookup ==
  \/ InsertEnter
  \/ InsertLeave
  \/ InsertAppendData
  \/ InsertTimeStamp
  \/ InsertSys
  \/ Rebuild
  \/ Lookup

SpecLookup == Init /\ [][NextLookup]_vars

\* SpecNest: one recording session whose clock ticks once per event, so the
\* events arrive in time order; scopes nest up to MaxNest records deep.
NestTime == count * TimeUnit

NestEnter ==
  /\ count < MaxNest
  /\ \E name \in Names : InsertEnterAt(NestTime, name)

NestSys ==
  /\ count < MaxNest
  /\ InsertSysAt(NestTime)

NestLeave ==
  /\ count < MaxNest
  /\ InsertLeaveAt(NestTime)

NestTimeStamp ==
  /\ count < MaxNest
  /\ \E name \in Names : InsertTimeStampAt(NestTime, name)

NextNest ==
  \/ NestEnter
  \/ NestSys
  \/ NestLeave
  \/ NestTimeStamp
  \/ Rebuild

SpecNest == Init /\ [][NextNest]_vars

\* SpecS1: the events of the nested-scope scenario (enter A at 0, enter B at
\* 100, leave at 400, leave at 500 microseconds) and their variations: one
\* event per scenario time, of either name or a leave, in any order.
S1Times == {0, 100, 400, 500}

S1Names == {"A", "B"}

S1Free(t) == \A i \in Indices : eventData[i].time # t

S1Enter == \E t \in S1Times, name \in S1Names : S1Free(t) /\ InsertEnterAt(t, name)

S1Leave == \E t \in S1Times : S1Free(t) /\ InsertLeaveAt(t)

NextS1 ==
  \/ S1Enter
  \/ S1Leave
  \/ Rebuild

SpecS1 == Init /\ [][NextS1]_vars

\* SpecRoot: enters, leaves and timeStamps at time 0 or one millisecond
\* later, in any number of batches, with the root-scope lookup between any
\* two operations.
RootTimes == {0, 2 * TimeUnit}

RootEnter ==
  /\ count < MaxRoot
  /\ \E t \in RootTimes, name \in Names : InsertEnterAt(t, name)

RootLeave ==
  /\ count < MaxRoot
  /\ \E t \in RootTimes : InsertLeaveAt(t)

RootTimeStamp ==
  /\ count < MaxRoot
  /\ \E t \in RootTimes, name \in Names : InsertTimeStampAt(t, name)

RootQueryTimes == 0 .. ((2 * TimeUnit) \div 1000 + 1)

RootLookup == \E t \in RootQueryTimes : RootScopeIncludingTime(t)

NextRoot ==
  \/ RootEnter
  \/ RootLeave
  \/ RootTimeStamp
  \/ Rebuild
  \/ RootLookup

SpecRoot == Init /\ [][NextRoot]_vars

\* A trace header declares an event type: EventTypeTable.defineType.
DefineEventType(eventType) ==
  /\ eventTypes' = DefineType(eventTypes, eventType)
  /\ typeCall' = [fn |-> "defineType", name |-> eventType.name, id |-> 0,
                  result |-> GetByName(eventTypes', eventType.name)]
  /\ lastOp' = "define"
  /\ query' = NoQuery
  /\ calls' = << >>
  /\ UNCHANGED << eventData, count, argumentData_, firstEventTime_,
                  lastEventTime_, maximumScopeDepth_, threw, opened, listVars,
                  statVars, iterator >>

DefineFrameStart ==
  /\ GetByName(eventTypes, FrameStartName) = 0
  /\ DefineEventType(FrameStartType)

DefineFrameEnd ==
  /\ GetByName(eventTypes, FrameEndName) = 0
  /\ DefineEventType(FrameEndType)

\* A frame event carries the frame number as its one argument.
InsertFrameStartAt(t, number) ==
  /\ GetByName(eventTypes, FrameStartName) # 0
  /\ Insert(GetByName(eventTypes, FrameStartName), t, TRUE, MakeArgs("", number))

InsertFrameEndAt(t, number) ==
  /\ GetByName(eventTypes, FrameEndName) # 0
  /\ Insert(GetByName(eventTypes, FrameEndName), t, TRUE, MakeArgs("", number))

\* A frame list is created (and registers itself) while it is not on the
\* store, and is disposed (and unregisters itself) while it is.
Register == \E l \in Lists :
  /\ \A k \in 1 .. Len(ancillaryLists_) : ancillaryLists_[k] # l
  /\ NewFrameList(l)

Unregister == \E l \in Lists :
  /\ \E k \in 1 .. Len(ancillaryLists_) : ancillaryLists_[k] = l
  /\ UnregisterAncillaryList(l)

\* SpecLists: two frame lists come and go on one store while a session
\* records frame events of frame 1, timeStamps and (stray) leaves, one clock
\* tick apart; a timeStamp may carry the name of the frameStart type.
ListTime == (count + 1) * TimeUnit

ListNames == {"a", FrameStartName}

ListFrameStart ==
  /\ count < MaxListEvents
  /\ InsertFrameStartAt(ListTime, 1)

ListFrameEnd ==
  /\ count < MaxListEvents
  /\ InsertFrameEndAt(ListTime, 1)

ListTimeStamp ==
  /\ count < MaxListEvents
  /\ \E name \in ListNames : InsertTimeStampAt(ListTime, name)

ListLeave ==
  /\ count < MaxListEvents
  /\ InsertLeaveAt(ListTime)

NextLists ==
  \/ DefineFrameStart
  \/ DefineFrameEnd
  \/ ListFrameStart
  \/ ListFrameEnd
  \/ ListTimeStamp
  \/ ListLeave
  \/ Register
  \/ Unregister
  \/ Rebuild

SpecLists == Init /\ [][NextLists]_vars

\* SpecFrames: one frame list on a store that receives the frame events of
\* frames 1 and 2 at 0, 1000 and 17000 microseconds, in any order and in any
\* number of batches.
FrameTimes == {0, 1000, 17000}

FrameNumbers == {1, 2}

FramesRegister ==
  /\ ancillaryLists_ = << >>
  /\ NewFrameList(1)

FramesStart ==
  /\ count < MaxFrameEvents
  /\ \E t \in FrameTimes, number \in FrameNumbers : InsertFrameStartAt(t, number)

FramesEnd ==
  /\ count < MaxFrameEvents
  /\ \E t \in FrameTimes, number \in FrameNumbers : InsertFrameEndAt(t, number)

NextFrames ==
  \/ DefineFrameStart
  \/ DefineFrameEnd
  \/ FramesRegister
  \/ FramesStart
  \/ FramesEnd
  \/ Rebuild

SpecFrames == Init /\ [][NextFrames]_vars


\* SpecStats: a session whose clock ticks once per event, starting at 0, and
\* a statistics object over its database.  The statistics are read from a
\* loaded database: after a rebuild that returned, before the next insert.
StatTime == count * TimeUnit

Loaded == lastOp \in {"rebuild", "statistics"} /\ ~threw

StatEnter == count < MaxStatEvents /\ InsertEnterAt(StatTime, "a")

StatSys == count < MaxStatEvents /\ InsertSysAt(StatTime)

StatLeave == count < MaxStatEvents /\ InsertLeaveAt(StatTime)

StatTimeStamp == count < MaxStatEvents /\ InsertTimeStampAt(StatTime, "b")

\* The windows asked for: the constructor's, and 0 .. 1 ms.
StatWindows == {<< MinValueMicros, MaxValueMicros >>, << 0, 1000 >>}

StatRebuild ==
  /\ Loaded
  /\ \E w \in StatWindows, filter \in Filters :
       StatisticsRebuild(w[1], w[2], filter)

StatForEach ==
  /\ Loaded
  /\ \E sortMode \in {ANY, COUNT, TOTAL_TIME, MEAN_TIME} : ForEach(sortMode)

NextStats ==
  \/ StatEnter
  \/ StatSys
  \/ StatLeave
  \/ StatTimeStamp
  \/ Rebuild
  \/ StatRebuild
  \/ StatForEach

SpecStats == Init /\ [][NextStats]_vars

\* SpecSort: the same session without timeStamps, with statistics that are
\* rebuilt over everything without a filter and enumerated in every sort
\* mode.
SortEnter == count < MaxSortEvents /\ InsertEnterAt(StatTime, "a")

SortSys == count < MaxSortEvents /\ InsertSysAt(StatTime)

SortLeave == count < MaxSortEvents /\ InsertLeaveAt(StatTime)

SortRebuild ==
  Loaded /\ StatisticsRebuild(MinValueMicros, MaxValueMicros, "none")

NextSort ==
  \/ SortEnter
  \/ SortSys
  \/ SortLeave
  \/ Rebuild
  \/ SortRebuild
  \/ StatForEach

SpecSort == Init /\ [][NextSort]_vars

\* SpecTypes: the type table of a database, asked to define types (new names,
\* names already defined with another description, an inherited property
\* name) and looked up by name and by id.
TypeNames == {"a", "b", "sys", "wtf.scope#leave", "constructor"}

TypeIds == 0 .. (Len(InitialTypes) + Cardinality(TypeNames))

TypeDescriptions ==
  {[name |-> name, eventClass |-> eventClass, flags |-> flags] :
     name \in TypeNames, eventClass \in {"SCOPE", "INSTANCE"},
     flags \in {{}, {"SYSTEM_TIME"}}}

TypeDefine == \E eventType \in TypeDescriptions : DefineEventType(eventType)

\* EventTypeTable.getByName(name) and getById(id), as calls.
TypeLookup(call) ==
  /\ typeCall' = call
  /\ lastOp' = "lookup"
  /\ UNCHANGED << eventData, count, argumentData_, firstEventTime_,
                  lastEventTime_, maximumScopeDepth_, eventTypes, threw,
                  opened, query, listVars, calls, statVars, iterator >>

TypeGetByName ==
  \E name \in TypeNames \cup {"c"} :
    TypeLookup([fn |-> "getByName", name |-> name, id |-> 0,
                result |-> GetByName(eventTypes, name)])

TypeGetById ==
  \E id \in TypeIds :
    TypeLookup([fn |-> "getById", name |-> GetById(eventTypes, id).name,
                id |-> id,
                result |-> IF GetById(eventTypes, id) = NoType THEN 0 ELSE id])

NextTypes ==
  \/ TypeDefine
  \/ TypeGetByName
  \/ TypeGetById

SpecTypes == Init /\ [][NextTypes]_vars

\* SpecGrow: a store that BulkCount inserts of the declared type "sys" at
\* time 0 have filled up to the capacity of its buffer, and the inserts that
\* make the buffer grow.
BulkData ==
  [i \in 0 .. (BulkCount - 1) |->
     [ZeroRecord EXCEPT !.id = ToUint32(i),
                        !.type = ToUint32(GetByName(InitialTypes, "sys")),
                        !.parent = ToUint32(-1)]]

InitGrow ==
  /\ eventData = BulkData
  /\ count = BulkCount
  /\ argumentData_ = << >>
  /\ firstEventTime_ = 0
  /\ lastEventTime_ = 0
  /\ maximumScopeDepth_ = 0
  /\ eventTypes = InitialTypes
  /\ lastOp = "insert"
  /\ threw = FALSE
  /\ opened = {}
  /\ query = [op |-> "insert", time |-> 0,
              result |-> GetByName(InitialTypes, "sys")]
  /\ ancillaryLists_ = << >>
  /\ frames_ = [l \in Lists |-> << >>]
  /\ frameList_ = [l \in Lists |-> << >>]
  /\ calls = << >>
  /\ list_ = << >>
  /\ listSortMode_ = ANY
  /\ filteredEventCount_ = 0
  /\ statCall = NoStatCall
  /\ typeCall = NoTypeCall
  /\ iterator = NoIterator

GrowRoom == count < BulkCount + MaxGrowEvents

GrowEnter == GrowRoom /\ \E t \in Times, name \in Names : InsertEnterAt(t, name)

GrowLeave == GrowRoom /\ \E t \in Times : InsertLeaveAt(t)

GrowAppendData == GrowRoom /\ \E t \in Times : InsertAppendDataAt(t)

GrowTimeStamp ==
  GrowRoom /\ \E t \in Times, name \in Names : InsertTimeStampAt(t, name)

GrowSys == GrowRoom /\ \E t \in Times : InsertSysAt(t)

NextGrow ==
  \/ GrowEnter
  \/ GrowLeave
  \/ GrowAppendData
  \/ GrowTimeStamp
  \/ GrowSys

SpecGrow == InitGrow /\ [][NextGrow]_vars

\* SpecBatch: batches of inserts, closed by rebuild or cut short by the
\* failure of the data source that feeds them.  A source that fails makes
\* no further call on the store: EventList has no operation that removes a
\* record or lowers count.
SourceFails ==
  /\ lastOp = "insert"
  /\ lastOp' = "sourceFailed"
  /\ UNCHANGED << eventData, count, argumentData_, firstEventTime_,
                  lastEventTime_, maximumScopeDepth_, eventTypes, threw,
                  opened, query, calls, listVars, statVars, typeCall,
                  iterator >>

NextBatch ==
  \/ InsertEnter
  \/ InsertLeave
  \/ InsertTimeStamp
  \/ Rebuild
  \/ SourceFails

SpecBatch == Init /\ [][NextBatch]_vars

\* SpecIter: a store is filled and rebuilt, then one iterator is taken from
\* it (begin or beginEventRange) and moved and read; the store is left alone
\* while the iterator is in use.
NoneInUse == iterator = NoIterator

InUse == iterator # NoIterator

IterEnter ==
  NoneInUse /\ count < MaxIterEvents /\ InsertEnterAt(StatTime, "a")

IterSys == NoneInUse /\ count < MaxIterEvents /\ InsertSysAt(StatTime)

IterLeave == NoneInUse /\ count < MaxIterEvents /\ InsertLeaveAt(StatTime)

IterTimeStamp ==
  NoneInUse /\ count < MaxIterEvents /\ InsertTimeStampAt(StatTime, "b")

IterRebuild == NoneInUse /\ lastOp = "insert" /\ Rebuild

Committed == lastOp \in {"init", "rebuild"} /\ ~threw

IterBegin == NoneInUse /\ Committed /\ Begin

IterBeginEventRange ==
  /\ NoneInUse
  /\ Committed
  /\ \E startIndex \in 0 .. Max(count - 1, 0) :
       \E endIndex \in startIndex .. Max(count - 1, 0) :
         BeginEventRange(startIndex, endIndex)

\* seek to an index of the range, behind it, or to a negative index.
IterSeek ==
  /\ InUse
  /\ \E index \in {-1} \cup (iterator.firstIndex_ .. (iterator.lastIndex_ + 2)) :
       IteratorSeek(index)

IterNext == InUse /\ iterator.index_ <= iterator.lastIndex_ + 1 /\ IteratorNext

IterNextScope == InUse /\ IteratorNextScope

IterNextInstance == InUse /\ IteratorNextInstance

IterMoveToParent == InUse /\ IteratorMoveToParent

IterGetParent == InUse /\ IteratorGetParent

IterGet == InUse /\ \E getter \in Getters : IteratorGet(getter)

NextIter ==
  \/ IterEnter
  \/ IterSys
  \/ IterLeave
  \/ IterTimeStamp
  \/ IterRebuild
  \/ IterBegin
  \/ IterBeginEventRange
  \/ IterSeek
  \/ IterNext
  \/ IterNextScope
  \/ IterNextInstance
  \/ IterMoveToParent
  \/ IterGetParent
  \/ IterGet

SpecIter == Init /\ [][NextIter]_vars

\* SpecSiblings: on a rebuilt store an iterator over the whole store is
\* put on a record and then moved with nextSibling() only, as long as it
\* is not done; a caller that loops on done() keeps calling.
SiblingsBegin ==
  /\ NoneInUse
  /\ lastOp = "rebuild"
  /\ ~threw
  /\ \E index \in Indices :
       IteratorStep(SeekTo(NewIterator(0, GetCount - 1, 0), index))

SiblingsNext == InUse /\ ~Done(iterator) /\ IteratorNextSibling

NextSiblings ==
  \/ IterEnter
  \/ IterSys
  \/ IterLeave
  \/ IterTimeStamp
  \/ IterRebuild
  \/ SiblingsBegin
  \/ SiblingsNext

SpecSiblings == Init /\ [][NextSiblings]_vars /\ WF_vars(SiblingsNext)

\* SpecBatches: batches of events at any of the times, scopes named "a"
\* and time stamps named "b", each batch closed by a rebuild.
BatchEnter ==
  count < MaxEvents /\ \E t \in Times : InsertEnterAt(t, "a")

BatchLeave == count < MaxEvents /\ \E t \in Times : InsertLeaveAt(t)

BatchTimeStamp ==
  count < MaxEvents /\ \E t \in Times : InsertTimeStampAt(t, "b")

BatchSys == count < MaxEvents /\ \E t \in Times : InsertSysAt(t)

NextBatches ==
  \/ BatchEnter
  \/ BatchLeave
  \/ BatchTimeStamp
  \/ BatchSys
  \/ Rebuild

SpecBatches == Init /\ [][NextBatches]_vars

\* ------------------------------------------------------------ reading a rebuilt store
\* The last operation was a rebuild() that returned.
Rebuilt == lastOp = "rebuild" /\ ~threw

LeaveId == GetByName(eventTypes, "wtf.scope#leave")

\* The wtf.scope#leave records (their TYPE cell is never rewritten).
Leaves == {i \in Indices : eventData[i].type = LeaveId}

MaxOf(S) == CHOOSE x \in S : \A y \in S : y <= x

\* The scope a leave has to close by LIFO matching, told from the order of
\* the records alone: the latest opened record before the leave with as
\* many opens as leaves in between; -1 for a stray leave.
RefMatch(l) ==
  LET c == {j \in opened :
              /\ j < l
              /\ Cardinality({k \in opened : j < k /\ k < l})
                   = Cardinality({k \in Leaves : j < k /\ k < l})}
  IN IF c = {} THEN -1 ELSE MaxOf(c)

\* The scopes the last rebuild closed, and the leave that closed each.
Closed == {RefMatch(l) : l \in Leaves} \ {-1}

ClosedBy(s) == CHOOSE l \in Leaves : RefMatch(l) = s

\* The scopes still open when record i is processed.
OpenAt(i) ==
  {j \in opened : j < i /\ \A l \in Leaves : l < i => RefMatch(l) # j}

\* The records directly inside scope s.
ChildrenOf(s) ==
  {r \in Indices : /\ eventData[r].depth > 0
                   /\ eventData[r].parent = s
                   /\ eventData[r].depth = eventData[s].depth + 1}

Duration(r) == eventData[r].endTime - eventData[r].time

RECURSIVE SumDurations(_)
SumDurations(S) ==
  IF S = {} THEN 0
  ELSE LET x == CHOOSE y \in S : TRUE
       IN Duration(x) + SumDurations(S \ {x})

\* ------------------------------------------------------------ C1
StableRank(data, n, i) ==
  Cardinality({j \in 0 .. (n - 1) :
                 \/ data[j].time < data[i].time
                 \/ data[j].time = data[i].time /\ j < i})

GenericIds ==
  {GetByName(InitialTypes, "wtf.scope#enter"),
   GetByName(InitialTypes, "wtf.trace#timeStamp")}

\* Record i of pre sits at index k of post (the cells rebuild never rewrites
\* for that record: TIME, TAG, a non-zero ARGUMENTS, a non-generic TYPE).
SameEvent(pre, i, post, k) ==
  /\ post[k].time = pre[i].time
  /\ post[k].tag = pre[i].tag
  /\ pre[i].arguments # 0 => post[k].arguments = pre[i].arguments
  /\ pre[i].type \notin GenericIds => post[k].type = pre[i].type

SortedByTime(data, n) ==
  \A i \in 0 .. (n - 1) :
    /\ data[i].id = i
    /\ i + 1 < n => data[i].time <= data[i + 1].time

\* C1: every rebuild() (over any batches, also one that raises while
\* re-scoping) leaves the records in ascending TIME with ID = index, and
\* puts each record after exactly the records that have a smaller time or
\* the same time and an earlier place (between rebuilds a record inserted
\* later has the later place, so equal times keep their insertion order).
C1_SortStable ==
  [][lastOp' = "rebuild" =>
       /\ SortedByTime(eventData', count')
       /\ \A i \in Indices :
            SameEvent(eventData, i, eventData', StableRank(eventData, count, i))]_vars

\* A rebuild moved a later-inserted record (the larger argument id) before
\* an earlier one, and two neighbours share their time.
C1_Witness ==
  /\ lastOp = "rebuild"
  /\ \E i, j \in Indices :
       i < j /\ eventData[i].arguments > eventData[j].arguments
             /\ eventData[j].arguments > 0
  /\ \E i \in Indices : i + 1 < count /\ eventData[i].time = eventData[i + 1].time

C3_Depth ==
  Rebuilt =>
    \A i \in Indices :
      /\ eventData[i].depth = Cardinality(OpenAt(i))
      /\ OpenAt(i) = {} => eventData[i].depth = 0
      /\ OpenAt(i) # {} =>
           /\ eventData[i].parent = MaxOf(OpenAt(i))
           /\ eventData[i].depth = eventData[eventData[i].parent].depth + 1

\* A record two scopes deep, below a record one scope deep.
C3_Witness ==
  /\ Rebuilt
  /\ \E i \in Indices :
       /\ Cardinality(OpenAt(i)) = 2
       /\ eventData[i].depth = 2
       /\ eventData[eventData[i].parent].depth = 1

\* ------------------------------------------------------------ C4
\* C4: after a rebuild() that returned, the CHILD_TIME of every scope that
\* rebuild closed is the sum of END_TIME - TIME over the closed scopes
\* directly inside it (0 without any).
C4_ChildTime ==
  Rebuilt =>
    \A s \in Closed :
      eventData[s].childTime = SumDurations(ChildrenOf(s) \cap Closed)

\* A closed scope with two closed scope children of non-zero duration.
C4_Witness ==
  /\ Rebuilt
  /\ \E s \in Closed :
       /\ Cardinality(ChildrenOf(s) \cap Closed) = 2
       /\ eventData[s].childTime = 2 * TimeUnit

\* ------------------------------------------------------------ C5
HasSystemTimeFlag(r) ==
  "SYSTEM_TIME" \in eventTypes[eventData[r].type].flags

\* The closed scopes inside scope s, at any depth.
ClosedWithin(s) == {d \in Closed : s < d /\ d < ClosedBy(s)}

\* C5: after a rebuild() that returned, the SYSTEM_TIME of every closed
\* scope is the sum of END_TIME - TIME over the scopes inside it whose own
\* type carries the SYSTEM_TIME flag.
C5_SystemTime ==
  Rebuilt =>
    \A s \in Closed :
      eventData[s].systemTime =
        SumDurations({d \in ClosedWithin(s) : HasSystemTimeFlag(d)})

\* ------------------------------------------------------------ C6
\* C6: a second rebuild() with no insert in between returns and leaves every
\* cell of every record and the event-type table as the first one left them.
C6_Idempotent ==
  [][(Rebuilt /\ lastOp' = "rebuild") =>
       (~threw' /\ eventData' = eventData /\ eventTypes' = eventTypes)]_vars

\* ------------------------------------------------------------ C7
\* The records reached from record i by following NEXT_SIBLING (0 ends the
\* walk), at most fuel of them.
RECURSIVE SiblingChain(_, _)
SiblingChain(i, fuel) ==
  IF fuel = 0 THEN {}
  ELSE {i} \cup (IF eventData[i].nextSibling = 0 THEN {}
                 ELSE SiblingChain(eventData[i].nextSibling, fuel - 1))

Ascending(S) ==
  \A r \in S :
    eventData[r].nextSibling # 0 =>
      /\ eventData[r].nextSibling > r
      /\ eventData[r].nextSibling \in Indices
      /\ eventData[eventData[r].nextSibling].time >= eventData[r].time

TypeName(r) == eventTypes[eventData[r].type].name

\* The store holds the scenario: enter A at 0, enter B at 100, leave at 400,
\* leave at 500.
S1Loaded ==
  /\ count = 4
  /\ eventData[0].time = 0 /\ 0 \in opened /\ TypeName(0) = "A"
  /\ eventData[1].time = 100 /\ 1 \in opened /\ TypeName(1) = "B"
  /\ eventData[2].time = 400 /\ 2 \in Leaves
  /\ eventData[3].time = 500 /\ 3 \in Leaves

\* C8: after a rebuild() that returned, every leave record has closed the
\* innermost scope still open at its place, whose END_TIME is the leave's
\* TIME; for the scenario, A: TIME 0, END_TIME 500, DEPTH 0, CHILD_TIME 300,
\* SYSTEM_TIME 0 and B: TIME 100, END_TIME 400, DEPTH 1, PARENT = A's index.
C8_LifoMatching ==
  Rebuilt =>
    /\ \A l \in Leaves :
         /\ RefMatch(l) # -1
         /\ eventData[RefMatch(l)].endTime = eventData[l].time
         /\ eventData[l].parent = RefMatch(l)
    /\ S1Loaded =>
         /\ eventData[0].endTime = 500 /\ eventData[0].depth = 0
         /\ eventData[0].childTime = 300 /\ eventData[0].systemTime = 0
         /\ eventData[1].endTime = 400 /\ eventData[1].depth = 1
         /\ eventData[1].parent = 0

\* The scenario, inserted leaves first, after its rebuild.
C8_Witness ==
  /\ Rebuilt
  /\ S1Loaded
  /\ eventData[0].arguments > eventData[1].arguments

\* ------------------------------------------------------------ C9
\* No record of the store has been through a rebuild.
FreshStore(data, n) == \A i \in 0 .. (n - 1) : data[i].parent = ToUint32(-1)

DistinctTimes(data, n) ==
  \A i, j \in 0 .. (n - 1) : i # j => data[i].time # data[j].time

\* The store after inserting the events of the (fresh) store data in
\* ascending order of their times into an empty store: its first k records.
RECURSIVE InTimeOrder(_, _, _, _)
InTimeOrder(data, args, n, k) ==
  IF k = 0 THEN [data |-> << >>, args |-> << >>]
  ELSE LET prev == InTimeOrder(data, args, n, k - 1)
           i == CHOOSE j \in 0 .. (n - 1) : StableRank(data, n, j) = k - 1
           hasArgs == data[i].arguments # 0
       IN [data |-> InsertRecord(prev.data, k - 1, data[i].type, data[i].time,
                                 IF hasArgs THEN Len(prev.args) + 1 ELSE 0),
           args |-> IF hasArgs THEN Append(prev.args, args[data[i].arguments])
                    ELSE prev.args]

\* rebuild() of that store.
RebuiltInTimeOrder(data, args, n, types) ==
  LET store == InTimeOrder(data, args, n, n)
  IN RescopeEvents(ResortedData(store.data, n), n, types, store.args)

SameCells(a, b) ==
  /\ a.id = b.id /\ a.type = b.type /\ a.time = b.time
  /\ a.endTime = b.endTime /\ a.depth = b.depth /\ a.parent = b.parent
  /\ a.nextSibling = b.nextSibling /\ a.childTime = b.childTime
  /\ a.systemTime = b.systemTime

\* C9: the first rebuild() of a store whose events all have different times
\* gives, whatever the order they were inserted in, the record order and
\* the TYPE, TIME, END_TIME, DEPTH, PARENT, NEXT_SIBLING, CHILD_TIME and
\* SYSTEM_TIME cells that inserting them in time order gives.
C9_OrderIndependent ==
  [][(lastOp' = "rebuild" /\ FreshStore(eventData, count)
        /\ DistinctTimes(eventData, count)) =>
       LET ref == RebuiltInTimeOrder(eventData, argumentData_, count, eventTypes)
       IN /\ threw' = ref.threw
          /\ eventTypes' = ref.types
          /\ \A i \in Indices : SameCells(eventData'[i], ref.data[i])]_vars

\* A first rebuild that returned, of three events inserted latest first,
\* with a scope among them.
C9_Witness ==
  /\ Rebuilt
  /\ count >= 3
  /\ DistinctTimes(eventData, count)
  /\ \A i \in Indices : eventData[i].arguments = count - i
  /\ opened # {}

\* ------------------------------------------------------------ C10
\* C10: on a rebuilt store getIndexOfEventNearTime(t) is the largest index
\* whose TIME is at most t (in microseconds), and 0 when there is none.
C10_NearTime ==
  (query.op = "nearTime" /\ lastOp = "rebuild") =>
    LET atOrBefore == {i \in Indices : eventData[i].time <= query.time * 1000}
    IN query.result = IF atOrBefore = {} THEN 0 ELSE MaxOf(atOrBefore)

\* ------------------------------------------------------------ C11
\* The depth-0 record a record lies under: the nearest record at or before
\* it whose DEPTH is 0.
RootAncestor(i) == MaxOf({j \in 0 .. i : eventData[j].depth = 0} \cup {0})

\* Record i is a scope: the last rebuild opened it.
IsScopeRecord(i) == i \in opened

\* The answer the store was read for, and the record the answer is about.
RootScopeAsked == query.op = "rootScope" /\ count > 0

\* C11: getIndexOfRootScopeIncludingTime(t) terminates, returns the depth-0
\* ancestor of the near-time event when that ancestor is a scope whose
\* END_TIME is at least t (in microseconds), returns the near-time index in
\* every other case, and never returns more than the near-time index.
C11_RootScope ==
  RootScopeAsked =>
    LET near == GetIndexOfEventNearTime(eventData, count, query.time)
        root == RootAncestor(near)
    IN /\ query.result # -1
       /\ query.result <= near
       /\ IF IsScopeRecord(root) /\ eventData[root].endTime >= query.time * 1000
          THEN query.result = root
          ELSE query.result = near

\* ------------------------------------------------------------ C12
\* C12: an insert changes nothing a reader sees before the next rebuild():
\* getCount() and the records visited by the iterators of begin() and of
\* beginTimeRange over the whole recording stay those of the last rebuild.
C12_InsertInvisible ==
  [][lastOp' = "insert" =>
       /\ GetCount' = GetCount
       /\ BeginVisits' = BeginVisits
       /\ BeginTimeRangeVisits(0, MaxTime, FALSE)'
            = BeginTimeRangeVisits(0, MaxTime, FALSE)]_vars

\* ------------------------------------------------------------ C13
\* The positions in the log of callbacks of the calls of fn on list.
CallsOf(fn, list) ==
  {k \in 1 .. Len(calls) : calls[k].fn = fn /\ calls[k].list = list}

\* The records whose TYPE is one of the (non-null) types the list asked for.
WantedRecords ==
  {i \in Indices :
     \E m \in 1 .. Len(BeginRebuild(eventTypes)) :
        BeginRebuild(eventTypes)[m] = eventData[i].type}

\* The position of a type in the array the list returned, counted from 0.
PositionOfType(typeId) ==
  (CHOOSE m \in 1 .. Len(BeginRebuild(eventTypes)) :
      BeginRebuild(eventTypes)[m] = typeId) - 1

\* The callbacks list got form one cycle: beginRebuild once, then one
\* handleEvent per wanted record in ascending index with the type's
\* position and the iterator on the record, then endRebuild once.
OneCycle(list) ==
  /\ Cardinality(CallsOf("beginRebuild", list)) = 1
  /\ Cardinality(CallsOf("endRebuild", list)) = 1
  /\ \A b \in CallsOf("beginRebuild", list), h \in CallsOf("handleEvent", list),
        e \in CallsOf("endRebuild", list) : b < h /\ h < e
  /\ \A b \in CallsOf("beginRebuild", list), e \in CallsOf("endRebuild", list) :
        b < e
  /\ {calls[h].index : h \in CallsOf("handleEvent", list)} = WantedRecords
  /\ \A h1, h2 \in CallsOf("handleEvent", list) :
        h1 < h2 => calls[h1].index < calls[h2].index
  /\ \A h \in CallsOf("handleEvent", list) :
        /\ calls[h].index \in Indices
        /\ calls[h].eventType = eventData[calls[h].index].type
        /\ calls[h].eventTypeIndex = PositionOfType(calls[h].eventType)

\* The lists registered on the store.
Registered == {ancillaryLists_[k] : k \in 1 .. Len(ancillaryLists_)}

\* C13: after every rebuild() that returned, the callbacks of each
\* registered list form one cycle: beginRebuild once before any handleEvent,
\* handleEvent exactly once per record whose final TYPE the list asked for,
\* in ascending record index, with the position of the type in the returned
\* array (null entries keep their position) and the iterator on the record,
\* and endRebuild once after the last handleEvent.
C13_RebuildCycle ==
  Rebuilt => \A list \in Registered : OneCycle(list)

\* A rebuild with a registered list while only the frameEnd type is declared
\* (the first entry of the returned array is null): a frameEnd record was
\* handled with eventTypeIndex 1 and another record was not handled.
C13_Witness ==
  /\ Rebuilt
  /\ Registered # {}
  /\ BeginRebuild(eventTypes)[1] = 0
  /\ \E list \in Registered, h \in 1 .. Len(calls) :
        /\ calls[h].fn = "handleEvent"
        /\ calls[h].list = list
        /\ calls[h].eventTypeIndex = 1
  /\ WantedRecords # Indices

\* ------------------------------------------------------------ C14
\* The lists that got a callback in the last operation.
CalledLists == {calls[k].list : k \in 1 .. Len(calls)}

\* C14: registering a list on a store that holds events runs one cycle for
\* that list and calls no other list; on an empty store it calls nothing;
\* unregistering takes the list off the store and a rebuild calls no list
\* that is not on the store.
C14_Registration ==
  /\ [](/\ (lastOp = "register" /\ count # 0) =>
             /\ OneCycle(ancillaryLists_[Len(ancillaryLists_)])
             /\ CalledLists = {ancillaryLists_[Len(ancillaryLists_)]}
        /\ (lastOp = "register" /\ count = 0) => calls = << >>
        /\ lastOp = "rebuild" => CalledLists \subseteq Registered)
  /\ [][lastOp' = "unregister" =>
          \E list \in Registered : Registered' = Registered \ {list}]_vars

\* A list was registered late, next to another registered list, on a store
\* with a record it handles.
C14_Witness ==
  /\ lastOp = "register"
  /\ Len(ancillaryLists_) = 2
  /\ \E k \in 1 .. Len(calls) : calls[k].fn = "handleEvent"

\* ------------------------------------------------------------ C15
\* The lists that take part in the last operation: all registered lists in
\* a rebuild, the new list in a late registration.
Participating ==
  IF lastOp = "rebuild" THEN Registered
  ELSE {ancillaryLists_[Len(ancillaryLists_)]}

\* The last operation rebuilt ancillary lists: a rebuild() that returned or
\* a registration on a store that holds events.
ListsRebuilt == Rebuilt \/ (lastOp = "register" /\ count # 0)

\* C15: every rebuild() that returned and every late registration on a
\* non-empty store makes each participating frame list emit INVALIDATED
\* exactly once, after every handleEvent call of that rebuild and with the
\* partial frames gone from the list.
C15_Invalidated ==
  ListsRebuilt =>
    \A list \in Participating :
      /\ Cardinality(CallsOf("INVALIDATED", list)) = 1
      /\ \A e \in CallsOf("INVALIDATED", list), h \in 1 .. Len(calls) :
            calls[h].fn = "handleEvent" => h < e
      /\ \A number \in DOMAIN frames_[list] : FrameIsWhole(frames_[list][number])
      /\ \A k \in 1 .. Len(frameList_[list]) :
            /\ frameList_[list][k] \in DOMAIN frames_[list]
            /\ FrameIsWhole(frames_[list][frameList_[list][k]])

\* A rebuild with two registered lists in which a frameStart record was
\* handled and frame 1, lacking its end, was removed again.
C15_Witness ==
  /\ Rebuilt
  /\ Len(ancillaryLists_) = 2
  /\ \E h \in 1 .. Len(calls) : calls[h].fn = "handleEvent"
  /\ \A list \in Registered : frameList_[list] = << >>

\* ------------------------------------------------------------ C16
\* What the frame list fl of the store holds.
FrameListOf(list) == [frames |-> frames_[list], frameList |-> frameList_[list]]

\* The records of the given type name that carry the frame number.
FrameRecords(typeName, number) ==
  {i \in Indices :
     /\ eventData[i].type = GetByName(eventTypes, typeName)
     /\ GetArgumentNumber(eventData[i], argumentData_) = number}

\* The frame numbers with both a frameStart and a frameEnd in the store.
WholeNumbers ==
  {number \in FrameNumbers :
     /\ FrameRecords(FrameStartName, number) # {}
     /\ FrameRecords(FrameEndName, number) # {}}

\* The store holds exactly frameStart(1) at 1000, frameEnd(1) at 17000 and
\* frameStart(2) at 17000 microseconds.
S4Loaded ==
  /\ count = 3
  /\ \E i \in FrameRecords(FrameStartName, 1) : eventData[i].time = 1000
  /\ \E i \in FrameRecords(FrameEndName, 1) : eventData[i].time = 17000
  /\ \E i \in FrameRecords(FrameStartName, 2) : eventData[i].time = 17000

\* C16: after every rebuild() that returned, a registered frame list holds,
\* in the dense list and by number, exactly the frames whose number has
\* both a frameStart and a frameEnd record in the store; in the scenario
\* getCount() is 1 and getFrameAtTime(10 ms) is frame 1.
C16_WholeFrames ==
  (Rebuilt /\ Registered # {}) =>
    \A list \in Registered :
      /\ {frameList_[list][k] : k \in 1 .. Len(frameList_[list])} = WholeNumbers
      /\ \A number \in FrameNumbers :
            (GetFrame(FrameListOf(list), number) # NullFrame) <=> number \in WholeNumbers
      /\ S4Loaded =>
            /\ FrameListGetCount(FrameListOf(list)) = 1
            /\ GetFrameAtTime(FrameListOf(list), 10) = 1

\* ------------------------------------------------------------ C17
\* The last call was a statistics rebuild() of the loaded database.
StatisticsRebuilt == lastOp = "statistics" /\ statCall.fn = "rebuild"

\* The window of the last statistics rebuild() covers every event.
WindowCoversAll ==
  \A i \in Indices :
    statCall.startTime <= eventData[i].time /\ eventData[i].time <= statCall.endTime

\* The type of record i carries the INTERNAL or the BUILTIN flag.
IsInternalOrBuiltin(typeId) ==
  LET flags == GetById(eventTypes, typeId).flags
  IN "INTERNAL" \in flags \/ "BUILTIN" \in flags

\* The events statistics are kept of, under the filter of the last rebuild().
CountedEvents ==
  {i \in Indices :
     /\ ~IsInternalOrBuiltin(eventData[i].type)
     /\ FilterAccepts(statCall.filter, eventData[i])}

\* C17: after a statistics rebuild() whose window covers every event,
\* getFilteredEventCount() is the number of events whose type is neither
\* INTERNAL nor BUILTIN and that the filter accepts, the last record
\* included, every such event being counted once in the entry of its type;
\* no entry is of an INTERNAL or BUILTIN type.
C17_FilteredCount ==
  (StatisticsRebuilt /\ WindowCoversAll) =>
    /\ GetFilteredEventCount = Cardinality(CountedEvents)
    /\ \A n \in 1 .. Len(list_) :
         /\ ~IsInternalOrBuiltin(list_[n].eventType)
         /\ list_[n].count =
              Cardinality({i \in CountedEvents :
                             eventData[i].type = list_[n].eventType})

\* ------------------------------------------------------------ C18
\* The sum of the buckets of a histogram.
RECURSIVE SumBuckets(_, _)
SumBuckets(buckets, S) ==
  IF S = {} THEN 0
  ELSE LET b == CHOOSE b \in S : TRUE
       IN buckets[b] + SumBuckets(buckets, S \ {b})

\* The scope entries of the statistics.
ScopeEntries == {n \in 1 .. Len(list_) : list_[n].scope}

\* C18: after a statistics rebuild() the buckets of every scope entry add up
\* to its count, every appended event having incremented one bucket, the
\* one at min(round(user duration in ms), 999), within 0 .. 999; user
\* durations of 0.4, 5.7 and 999.9 ms fall into buckets 0, 6 and 999.
C18_Histogram ==
  /\ BucketIndex(400) = 0 /\ BucketIndex(5700) = 6 /\ BucketIndex(999900) = 999
  /\ (StatisticsRebuilt /\ ~statCall.raised) =>
       \A n \in ScopeEntries :
         /\ DOMAIN list_[n].buckets_ \subseteq 0 .. LastBucket
         /\ SumBuckets(list_[n].buckets_, DOMAIN list_[n].buckets_) = list_[n].count

\* ------------------------------------------------------------ C19
\* The last call was a forEach() with the given sort mode.
Enumerated(sortMode) ==
  lastOp = "statistics" /\ statCall.fn = "forEach" /\ statCall.sortMode = sortMode

\* No instance entry stands before a scope entry.
ScopesFirst(list) ==
  \A i, j \in 1 .. Len(list) : (i < j /\ list[j].scope) => list[i].scope

\* The instance entries stand by descending count.
InstancesByCount(list) ==
  \A i, j \in 1 .. Len(list) :
    (i < j /\ ~list[i].scope /\ ~list[j].scope) => list[i].count >= list[j].count

\* The mean time of entry a is at least that of entry b.
MeanAtLeast(a, b) ==
  MeanTimeSum(a, eventTypes) * b.count >= MeanTimeSum(b, eventTypes) * a.count

\* The first record of the type in the store.
FirstRecordOf(typeId) ==
  CHOOSE i \in Indices :
    /\ eventData[i].type = typeId
    /\ \A k \in Indices : eventData[k].type = typeId => i <= k

\* C19: a forEach() with a sort mode hands over the entries in the order of
\* that mode, whatever rebuild() and forEach() calls came before.  COUNT:
\* descending count.  TOTAL_TIME: scope entries before instance entries,
\* scopes by descending total time, instances by descending count.
\* MEAN_TIME: the same with scopes by descending mean time.
C19_SortOrder ==
  /\ Enumerated(COUNT) =>
       \A i, j \in 1 .. Len(list_) : i < j => list_[i].count >= list_[j].count
  /\ Enumerated(TOTAL_TIME) =>
       /\ ScopesFirst(list_) /\ InstancesByCount(list_)
       /\ \A i, j \in 1 .. Len(list_) :
            (i < j /\ list_[i].scope /\ list_[j].scope) =>
              list_[i].totalTime_ >= list_[j].totalTime_
  /\ Enumerated(MEAN_TIME) =>
       /\ ScopesFirst(list_) /\ InstancesByCount(list_)
       /\ \A i, j \in 1 .. Len(list_) :
            (i < j /\ list_[i].scope /\ list_[j].scope) =>
              MeanAtLeast(list_[i], list_[j])

\* A forEach(TOTAL_TIME) handed over two scope entries of different total
\* time, the one found later in the store first.
C19_Witness ==
  /\ Enumerated(TOTAL_TIME)
  /\ Len(list_) = 2
  /\ list_[1].scope /\ list_[2].scope
  /\ list_[1].totalTime_ > list_[2].totalTime_
  /\ FirstRecordOf(list_[1].eventType) > FirstRecordOf(list_[2].eventType)

\* ------------------------------------------------------------ C20
\* The ids under which the table holds a type of the name.
IdsOfName(types, name) == {i \in 1 .. Len(types) : types[i].name = name}

\* What defineType has to do for a name, by the table before and after:
\* a name already defined keeps its entry and the table, a new name is
\* appended under the next id.
Interned(before, after, call) ==
  IF IdsOfName(before, call.name) # {}
  THEN after = before /\ call.result \in IdsOfName(before, call.name)
  ELSE /\ Len(after) = Len(before) + 1
       /\ SubSeq(after, 1, Len(before)) = before
       /\ after[Len(after)].name = call.name
       /\ call.result = Len(after)

\* What a lookup has to return: the id of the entry, 0 (null) for none.
LookedUp(types, call) ==
  /\ call.fn = "getByName" =>
       IF IdsOfName(types, call.name) = {} THEN call.result = 0
       ELSE call.result \in IdsOfName(types, call.name)
  /\ call.fn = "getById" =>
       call.result = IF call.id \in 1 .. Len(types) THEN call.id ELSE 0

\* C20: defineType interns by name.  The first definition of a name takes
\* the next id of 1, 2, 3, ... (never 0, none twice); a later definition of
\* the name, whatever its class and flags, returns the first entry, leaves
\* the table as it is and takes no id; getById and getByName return that
\* entry, and null for an id or a name never defined.
C20_Interning ==
  /\ [](/\ \A i, j \in 1 .. Len(eventTypes) :
             eventTypes[i].name = eventTypes[j].name => i = j
        /\ LookedUp(eventTypes, typeCall))
  /\ [][lastOp' = "define" => Interned(eventTypes, eventTypes', typeCall')]_vars

\* ------------------------------------------------------------ C21
\* The name argument of a record of the re-sorted data.
NameArgument(r) ==
  IF r.arguments \in 1 .. Len(argumentData_)
  THEN argumentData_[r.arguments].name ELSE ""

\* The type the TYPE cell of record i names after the step.
TypeAfter(i) == GetById(eventTypes', eventData'[i].type)

\* C21: a rebuild() that returns rewrites the TYPE of every wtf.scope#enter
\* record to a SCOPE-class type of the record's name and of every
\* wtf.trace#timeStamp record to an INSTANCE-class type of its name; the
\* types already defined stay as they are and no name is defined twice; no
\* record keeps a generic id and every record pushed as a scope has a
\* SCOPE-class type.
C21_OnDemandTypes ==
  [][(lastOp' = "rebuild" /\ ~threw') =>
       LET sorted == ResortedData(eventData, count)
       IN /\ SubSeq(eventTypes', 1, Len(eventTypes)) = eventTypes
          /\ \A i, j \in 1 .. Len(eventTypes') :
               eventTypes'[i].name = eventTypes'[j].name => i = j
          /\ \A i \in Indices :
               /\ sorted[i].type = GetByName(eventTypes, "wtf.scope#enter") =>
                    /\ TypeAfter(i).name = NameArgument(sorted[i])
                    /\ TypeAfter(i).eventClass = "SCOPE"
               /\ sorted[i].type = GetByName(eventTypes, "wtf.trace#timeStamp") =>
                    /\ TypeAfter(i).name = NameArgument(sorted[i])
                    /\ TypeAfter(i).eventClass = "INSTANCE"
               /\ eventData'[i].type \notin GenericIds
               /\ i \in opened' => TypeAfter(i).eventClass = "SCOPE"]_vars

\* ------------------------------------------------------------ C22
\* The wtf.scope#appendData records of the re-sorted data.
AppendDataRecords(sorted) ==
  {i \in Indices : sorted[i].type = GetByName(eventTypes, "wtf.scope#appendData")}

\* C22: a rebuild() that returns and meets every wtf.scope#appendData record
\* while no scope is open (at DEPTH 0) changes no ARGUMENTS cell and no
\* argument data, record 0 included, and leaves the appendData records
\* instance events of their type.
C22_AppendDataIgnored ==
  [][(lastOp' = "rebuild" /\ ~threw') =>
       LET sorted == ResortedData(eventData, count)
       IN (/\ AppendDataRecords(sorted) # {}
           /\ \A i \in AppendDataRecords(sorted) : eventData'[i].depth = 0) =>
            /\ argumentData_' = argumentData_
            /\ \A i \in Indices : eventData'[i].arguments = sorted[i].arguments
            /\ \A i \in AppendDataRecords(sorted) :
                 /\ eventData'[i].type = sorted[i].type
                 /\ i \notin opened']_vars

\* ------------------------------------------------------------ C23
\* C23: every rebuild() returns without raising, also when a wtf.scope#leave
\* is met while no scope is open; such a leave sets END_TIME on no record
\* (only records opened as scopes carry one) and no record gets a DEPTH
\* that wrapped around below 0.
C23_StrayLeaveSwept ==
  lastOp = "rebuild" =>
    /\ ~threw
    /\ \A i \in Indices :
         /\ eventData[i].depth <= count
         /\ eventData[i].endTime # 0 => i \in opened

\* ------------------------------------------------------------ C24
\* C24: insert(type, time, args) appends one record at index count with
\* ID = count, TYPE = type.id, TIME = time, PARENT = the -1 sentinel,
\* NEXT_SIBLING = 0, END_TIME = 0 and ARGUMENTS = 0, or with arguments the
\* next argument id, which is not 0 and which no record and no argument
\* data of the store has used; count grows by 1 and every earlier record
\* keeps every cell, also when the buffer is grown.
C24_InsertAppends ==
  [][lastOp' = "insert" =>
       LET new == eventData'[count]
       IN /\ count' = count + 1
          /\ DOMAIN eventData' = 0 .. count
          /\ \A i \in Indices : eventData'[i] = eventData[i]
          /\ new.id = count
          /\ new.type = query'.result
          /\ new.time = query'.time
          /\ new.parent = ToUint32(-1)
          /\ new.nextSibling = 0
          /\ new.endTime = 0
          /\ \/ new.arguments = 0 /\ argumentData_' = argumentData_
             \/ /\ new.arguments = Len(argumentData_) + 1
                /\ Len(argumentData_') = Len(argumentData_) + 1
                /\ SubSeq(argumentData_', 1, Len(argumentData_)) = argumentData_
                /\ \A i \in Indices : eventData[i].arguments # new.arguments]_vars

\* An insert has grown a buffer that held records, and appended to it.
C24_Witness ==
  /\ lastOp = "insert"
  /\ count = MinCapacity
  /\ eventData[count - 1].time # 0
  /\ eventData[count - 1].arguments # 0
  /\ eventData[count - 2].type = GetByName(InitialTypes, "sys")

\* ------------------------------------------------------------ C25
\* C25: after a rebuild that returned, every scope it closed has a total
\* duration (END_TIME - TIME) equal to its user duration plus SYSTEM_TIME,
\* not below its own duration and not below CHILD_TIME, so that its own
\* duration is not negative.
C25_Durations ==
  Rebuilt =>
    \A s \in Closed :
      LET r == eventData[s]
      IN /\ GetTotalDuration(r) = GetUserDuration(r) + r.systemTime
         /\ GetTotalDuration(r) >= GetOwnDuration(r)
         /\ GetTotalDuration(r) >= r.childTime
         /\ GetOwnDuration(r) >= 0

\* A closed scope with system time, with closed children and with time of
\* its own left.
C25_Witness ==
  /\ Rebuilt
  /\ \E s \in Closed :
       /\ eventData[s].systemTime > 0
       /\ eventData[s].childTime > 0
       /\ GetOwnDuration(eventData[s]) > 0
       /\ \E c \in Closed : eventData[c].parent = s /\ eventData[c].depth > 0

\* ------------------------------------------------------------ C26
\* The records no rebuild has scoped: insert leaves the -1 sentinel in
\* PARENT and rebuild overwrites it with the id of a record.
Uncommitted == {i \in Indices : eventData[i].parent = ToUint32(-1)}

\* C26: when a data source fails after some inserts of a batch, the store
\* holds the records of the last completed rebuild and no record of the
\* batch, and the next rebuild works on those records only.
C26_PartialBatchDiscarded ==
  /\ [](lastOp = "sourceFailed" => Uncommitted = {})
  /\ [][lastOp = "sourceFailed" /\ lastOp' = "rebuild" =>
          count' = count - Cardinality(Uncommitted)]_vars

GetFirstEventTime == firstEventTime_

GetLastEventTime == lastEventTime_

WithinEventTimes(t) == GetFirstEventTime <= t /\ t <= GetLastEventTime

\* C28: after a rebuild of a store that holds records the first event time
\* is the TIME of record 0 and the last event time is the END_TIME of the
\* last record if that is above 0 and its TIME otherwise; for an empty store
\* both are 0; and in every state the store reaches by inserts and rebuilds
\* the TIME of every record and the END_TIME of every closed scope lie
\* between the two.
C28_EventTimes ==
  /\ (Rebuilt /\ count > 0) =>
       /\ GetFirstEventTime = eventData[0].time
       /\ GetLastEventTime = IF eventData[count - 1].endTime > 0
                             THEN eventData[count - 1].endTime
                             ELSE eventData[count - 1].time
  /\ count = 0 => GetFirstEventTime = 0 /\ GetLastEventTime = 0
  /\ \A i \in Indices : WithinEventTimes(eventData[i].time)
  /\ \A s \in Closed : WithinEventTimes(eventData[s].endTime)

\* ------------------------------------------------------------ C29
\* The record at a cell offset, when the offset is that of a record of the
\* store.
OnRecord(offset) ==
  offset >= 0 /\ offset % StructSize = 0 /\ offset \div StructSize < count

RecordOf(offset) == eventData[offset \div StructSize]

\* An iterator that stands on a record of its range.
Standing(it) ==
  /\ it # NoIterator
  /\ ~Done(it)
  /\ it.index_ >= it.firstIndex_
  /\ it.offset_ = it.index_ * StructSize
  /\ OnRecord(it.offset_)

Candidates(it, from, wantScope) ==
  {i \in Indices :
     /\ i > from
     /\ i >= it.firstIndex_
     /\ i <= it.lastIndex_
     /\ (eventData[i].endTime # 0) = wantScope}

FromBegin(it) ==
  /\ it.call \in {"new", "next"}
  /\ it.firstIndex_ = 0
  /\ it.lastIndex_ = GetCount

InsertedType(r, types) ==
  IF r.type <= Len(InitialTypes) THEN r.type
  ELSE IF types[r.type].eventClass = "SCOPE"
  THEN GetByName(InitialTypes, "wtf.scope#enter")
  ELSE GetByName(InitialTypes, "wtf.trace#timeStamp")

\* The records of the store as insert writes them into a fresh store, in
\* the order the store holds them.
AsInserted(data, n, types) ==
  [i \in 0 .. (n - 1) |->
     [ZeroRecord EXCEPT !.id = data[i].id,
                        !.type = InsertedType(data[i], types),
                        !.parent = ToUint32(-1),
                        !.time = data[i].time,
                        !.arguments = data[i].arguments]]

\* rebuild() of the fresh store that holds all the events.
FromScratch(data, n, args, types) ==
  RescopeEvents(ResortedData(AsInserted(data, n, types), n), n,
                InitialTypes, args)

\* C33: a rebuild after further inserts leaves what one rebuild of a fresh
\* store holding all the events leaves: the same record order and the same
\* TYPE (by name), PARENT, DEPTH, NEXT_SIBLING, END_TIME, SYSTEM_TIME and
\* CHILD_TIME cells.
C33_Incremental ==
  [][(lastOp' = "rebuild" /\ ~threw) =>
       LET ref == FromScratch(eventData, count, argumentData_, eventTypes)
       IN /\ threw' = ref.threw
          /\ ~threw' =>
               \A i \in Indices :
                 /\ SameCells([eventData'[i] EXCEPT !.type = 0],
                              [ref.data[i] EXCEPT !.type = 0])
                 /\ eventData'[i].arguments = ref.data[i].arguments
                 /\ eventTypes'[eventData'[i].type].name
                      = ref.types[ref.data[i].type].name]_vars

\* ------------------------------------------------------------ C34
\* C34: after a rebuild that returned, NEXT_SIBLING of every record is 0 or
\* above the record's index, and a record of DEPTH above 0 has a PARENT
\* below its index that the rebuild pushed as a scope; so the links lead
\* to no record twice.
C34_LinksAcyclic ==
  Rebuilt =>
    \A i \in Indices :
      /\ eventData[i].nextSibling = 0
           \/ (eventData[i].nextSibling > i /\ eventData[i].nextSibling \in Indices)
      /\ eventData[i].depth > 0 =>
           /\ eventData[i].parent < i
           /\ eventData[i].parent \in opened

\* A record two scopes deep behind a closed scope whose NEXT_SIBLING skips
\* its children.
C34_Witness ==
  /\ Rebuilt
  /\ \E i \in Indices : eventData[i].depth >= 2
  /\ \E s \in Closed : eventData[s].nextSibling > s + 2

\* ------------------------------------------------------------ C35
\* SpecFrameBatches: one frame list on a store that receives up to
\* MaxBatchFrameEvents frame events of frames 1 and 2 at 1000 and 17000
\* microseconds, in any order and in any number of batches, so that two
\* whole frames can come from two batches.
MaxBatchFrameEvents == 4

BatchFrameTimes == {1000, 17000}

BatchFrameStart ==
  /\ count < MaxBatchFrameEvents
  /\ \E t \in BatchFrameTimes, number \in FrameNumbers : InsertFrameStartAt(t, number)

BatchFrameEnd ==
  /\ count < MaxBatchFrameEvents
  /\ \E t \in BatchFrameTimes, number \in FrameNumbers : InsertFrameEndAt(t, number)

NextFrameBatches ==
  \/ DefineFrameStart
  \/ DefineFrameEnd
  \/ FramesRegister
  \/ BatchFrameStart
  \/ BatchFrameEnd
  \/ Rebuild

SpecFrameBatches == Init /\ [][NextFrameBatches]_vars

\* The dense array of the list is in ascending order of frame start time.
OrderedByStart(list) ==
  \A j, k \in 1 .. Len(frameList_[list]) :
    j < k => frames_[list][frameList_[list][j]].time
               <= frames_[list][frameList_[list][k]].time

\* C35: after every rebuild() that returned, whatever batches of inserts and
\* rebuilds came before, the dense frame array of each registered frame list
\* is in ascending order of frame start time, also when a later batch brought
\* a frame that starts before the frames already held.
C35_FramesOrdered ==
  Rebuilt => \A list \in Registered : OrderedByStart(list)

\* ------------------------------------------------------------ C36
\* The frame numbers held by the dense array of the list.
DenseNumbers(list) == {frameList_[list][k] : k \in 1 .. Len(frameList_[list])}

\* C36: once a rebuild of the ancillary lists has ended, the dense array of
\* a frame list holds no frame twice, the numbers of its frames are exactly
\* the keys of the number -> Frame map, and getFrame(n) is non-null exactly
\* for the numbers n of the frames in getAllFrames().
C36_DenseMatchesMap ==
  ListsRebuilt =>
    \A list \in Participating :
      /\ \A j, k \in 1 .. Len(frameList_[list]) :
            frameList_[list][j] = frameList_[list][k] => j = k
      /\ DenseNumbers(list) = DOMAIN frames_[list]
      /\ \A number \in FrameNumbers \cup {0} :
            (GetFrame(FrameListOf(list), number) # NullFrame)
              <=> number \in DenseNumbers(list)

\* A rebuild after which the list holds frame 1 while frame 2, which has a
\* frameStart record and no frameEnd, was handled and left both collections
\* again.
C36_Witness ==
  /\ Rebuilt
  /\ frameList_[1] = << 1 >>
  /\ FrameRecords(FrameStartName, 2) # {}
  /\ FrameRecords(FrameEndName, 2) = {}
  /\ 2 \notin DOMAIN frames_[1]

\* ------------------------------------------------------------ C37
\* EventList.beginTimeRange(startTime, endTime): the iterator it returns;
\* times in milliseconds.
BeginTimeRange(startTime, endTime) ==
  LET startIndex == GetIndexOfEventNearTime(eventData, count, startTime)
      nearEnd == GetIndexOfEventNearTime(eventData, count, endTime)
      endIndex == IF nearEnd < startIndex THEN startIndex ELSE nearEnd
  IN NewIterator(startIndex, endIndex, startIndex)

MaxWideEvents == 3

WideTimes == {0, TimeUnit, CellRange, CellRange + TimeUnit}

WideEnter ==
  /\ count < MaxWideEvents
  /\ \E t \in WideTimes : InsertEnterAt(t, "a")

WideLeave ==
  /\ count < MaxWideEvents
  /\ \E t \in WideTimes : InsertLeaveAt(t)

NextWide ==
  \/ WideEnter
  \/ WideLeave
  \/ Rebuild

SpecWide == Init /\ [][NextWide]_vars

\* C38: insert stores the time it is given: right after insert(type, time)
\* the TIME cell of the new record equals the supplied time, for every
\* non-negative whole number of microseconds, also beyond the range of a
\* cell.
C38_TimeStored ==
  lastOp = "insert" => eventData[count - 1].time = query.time

\* ------------------------------------------------------------ C39
\* SpecTags: a store receives enters and leaves at 0 and 500 microseconds in
\* any order and is rebuilt; between two changes of the store a caller takes
\* the iterator of begin(), walks it with next() while it is not done(),
\* tags what it stands on, and drops the iterator.
MaxTagEvents == 3

TagTimes == {0, TimeUnit}

TagValues == {1, 2}

TagEnter ==
  /\ NoneInUse
  /\ count < MaxTagEvents
  /\ \E t \in TagTimes : InsertEnterAt(t, "a")

TagLeave ==
  /\ NoneInUse
  /\ count < MaxTagEvents
  /\ \E t \in TagTimes : InsertLeaveAt(t)

TagRebuild == NoneInUse /\ Rebuild

TagBegin == NoneInUse /\ ~threw /\ count > 0 /\ Begin

TagNext == InUse /\ ~Done(iterator) /\ IteratorNext

TagSetTag ==
  /\ InUse
  /\ ~Done(iterator)
  /\ \E value \in TagValues : IteratorSetTag(value)

\* The caller lets go of the iterator.
TagRelease ==
  /\ InUse
  /\ iterator' = NoIterator
  /\ UNCHANGED << eventData, count, argumentData_, firstEventTime_,
                  lastEventTime_, maximumScopeDepth_, eventTypes, lastOp,
                  threw, opened, query, listVars, calls, statVars, typeCall >>

NextTags ==
  \/ TagEnter
  \/ TagLeave
  \/ TagRebuild
  \/ TagBegin
  \/ TagNext
  \/ TagSetTag
  \/ TagRelease

SpecTags == Init /\ [][NextTags]_vars

\* What identifies a logical event together with its tag: the type it was
\* inserted with, its time, its arguments, and the tag it carries.
TaggedEvent(r, types) == << InsertedType(r, types), r.time, r.arguments, r.tag >>

\* The number of records of data that are the tagged event e.
TaggedCount(data, n, types, e) ==
  Cardinality({k \in 0 .. (n - 1) : TaggedEvent(data[k], types) = e})

\* setTag(value) on an iterator that is not done() writes the TAG cell of
\* the record the iterator stands on and nothing else.
SetTagWritesRecordTag ==
  iterator'.call = "setTag" =>
    /\ iterator.index_ \in Indices
    /\ eventData' = [eventData EXCEPT ![iterator.index_].tag = iterator'.result]

\* insert leaves every record it finds as it is, tag included, and the
\* event it adds carries no tag.
InsertKeepsTags ==
  (lastOp' = "insert" /\ count' = count + 1) =>
    /\ \A i \in Indices : eventData'[i] = eventData[i]
    /\ eventData'[count].tag = 0

\* A rebuild() that returns leaves every event with the tag it had, wherever
\* it moves the record.
RebuildKeepsTags ==
  (iterator = NoIterator /\ iterator' = NoIterator /\ lastOp' = "rebuild"
     /\ ~threw') =>
    \A i \in Indices :
      TaggedCount(eventData', count, eventTypes',
                  TaggedEvent(eventData[i], eventTypes))
        = TaggedCount(eventData, count, eventTypes,
                      TaggedEvent(eventData[i], eventTypes))

MaxSystemEvents == 6

SystemTimes == {0, TimeUnit}

SystemEnter ==
  /\ count < MaxSystemEvents
  /\ \E t \in SystemTimes : InsertEnterAt(t, "a")

SystemSys ==
  /\ count < MaxSystemEvents
  /\ \E t \in SystemTimes : InsertSysAt(t)

SystemLeave ==
  /\ count < MaxSystemEvents
  /\ \E t \in SystemTimes : InsertLeaveAt(t)

SystemRebuild == lastOp = "insert" /\ Rebuild

NextSystem ==
  \/ SystemEnter
  \/ SystemSys
  \/ SystemLeave
  \/ SystemRebuild

SpecSystem == Init /\ [][NextSystem]_vars

\* C40: after every rebuild() that returned, the SYSTEM_TIME cell of a
\* closed scope is at most the scope's total duration END_TIME - TIME,
\* however scopes with and without the SYSTEM_TIME flag are nested, so that
\* getUserDuration() is not negative and the bucket index that appendEvent
\* computes from it is not below 0.
C40_SystemTimeWithinTotal ==
  Rebuilt =>
    \A s \in Closed :
      /\ eventData[s].systemTime <= eventData[s].endTime - eventData[s].time
      /\ GetUserDuration(eventData[s]) >= 0
      /\ BucketIndex(GetUserDuration(eventData[s])) >= 0
====
